---- MODULE Spec2Model ----
(***************************************************************************)
(* Model of the CodexDesktopReload maintenance scripts:                    *)
(*   - scripts/patch-chromium-flags.js and scripts/patch-css-containment.js*)
(*     (the two patchers whose code is in the source tree),                *)
(*   - scripts/update-from-dmg.js (the disk-image extractor),              *)
(*   - scripts/dev-menu.js (the operator menu).                            *)
(*                                                                         *)
(* File contents are sequences of tokens.  A token is a piece of text that *)
(* the scripts treat as a unit: a patch marker, the closing head tag, a    *)
(* literal piece of injected text, or "x" for any other text.  Neither     *)
(* marker contains a newline or two consecutive blanks, and every injected *)
(* fragment is delimited by them, so a marker or a closing head tag never  *)
(* arises across the seam of an insertion: String.includes and             *)
(* String.indexOf on the text agree with membership and first position on  *)
(* the token sequence.                                                     *)
(***************************************************************************)
EXTENDS Integers, Sequences, FiniteSets, TLC

VARIABLES
    repo,       \* the repository's files: path -> content (absent paths are not in the domain)
    pc,         \* position of the running script
    last,       \* the last patcher run: [script, mode, status]
    nruns,      \* number of patcher processes run so far
    writes,     \* number of fs.writeFileSync calls made by the patchers, per target
    applies,    \* number of apply-mode runs per patcher
    orig,       \* the targets' contents at the start (history)
    afterOne,   \* each target's content after the first apply run of its patcher (history)
    \* scripts/update-from-dmg.js
    exitStatus, \* exit status of the script, Running until it has exited
    sevenZip,   \* the extraction tool found by find7zip
    tmpDir,     \* the temporary directory: NoDir, or the set of names it holds
    fileMap,    \* normalised archive path -> original archive path
    copyIdx,    \* index into COPY_MAP of the entry being processed
    todo,       \* normalised paths of the current entry still to extract
    copied,     \* the counter "copied"
    patchIdx,   \* index into PATCH_SCRIPTS of the next script to re-run
    patchLog,   \* outcome of each step of runPatches so far
    threw,      \* an exception is propagating out of the try block
    cause,      \* what made the run fail, "none" if nothing did (history)
    tmpCreated, \* fs.mkdtempSync has been called (history)
    repo0,      \* the repository at the start of the run (history)
    subsetOf,   \* COPY_MAP index -> the matching set found for it (history)
    written,    \* repository paths written by the copy step (history)
    extractErr, \* what the last asar.extractFile call threw, if it threw (history)
    toolEnv,    \* what find7zip met at each candidate, kept until mkdtemp (history)
    \* scripts/dev-menu.js
    choice,     \* the value returned by the last select prompt
    chainIdx,   \* position in the && chain of the "patch" action
    spawned,    \* the children run by the current action, in order, with their status
    rounds,     \* number of times the choice list has been presented
    menuExit,   \* exit status of the menu process, Running until it has exited
    prompts,    \* the prompts of the current round, in order, each with what came back
    answers,    \* the choices returned by select since the start (history)
    dmgAtRoot,  \* what the "update-src" action found at <root>/Codex.dmg
    \* scripts/start-dev.js
    platform,   \* process.platform
    arch,       \* os.arch()
    bins,       \* the paths under the repository root at which a file exists
    penv,       \* process.env of the launcher: variable name -> value
    probes,     \* the paths fs.existsSync has been asked about, in order
    resolved,   \* the value returned by resolveCodexCli
    stderr,     \* the diagnostic printed: [msg, paths]
    children,   \* the children spawned by the launcher, each with its env
    closeCodes, \* the codes the 'close' event has delivered
    launchExit, \* exit status of the launcher, Running until it has exited
    \* the child processes of one script (any of the three components)
    comp,       \* the component whose script runs
    stmts,     \* the statements of the script that matter here, in order
    ip,         \* index into stmts of the next statement
    live,       \* the children of the script that are running
    handler,    \* a 'close' handler is registered
    events,     \* the 'close' events waiting for the event loop, each with its code
    endWith,    \* the status the script ends with once it runs off its end
    procExit,   \* exit status of the script's process, Running until it has exited
    ranWhileLive \* the statements executed while a child was running (history)

pvars == <<last, nruns, writes, applies, orig, afterOne>>

uvars == <<exitStatus, sevenZip, tmpDir, fileMap, copyIdx, todo, copied, patchIdx,
           patchLog, threw, cause, tmpCreated, repo0, subsetOf, written, extractErr,
           toolEnv>>

mvars == <<choice, chainIdx, spawned, rounds, menuExit, prompts, answers, dmgAtRoot>>

lvars == <<platform, arch, bins, penv, probes, resolved, stderr, children, closeCodes,
           launchExit>>

cvars == <<comp, stmts, ip, live, handler, events, endWith, procExit, ranWhileLive>>

vars == <<repo, pc, pvars, uvars, mvars, lvars, cvars>>

(***************************************************************************)
(* Bounds                                                                  *)
(***************************************************************************)
MaxLen ==
    3

MaxRuns ==
    3

MaxRounds ==
    2

(***************************************************************************)
(* Text                                                                    *)
(***************************************************************************)
MARKER_CSS ==
    "/* css-containment-patch */"

MARKER_FLAGS ==
    "/* chromium-flags-patch */"

HEAD_CLOSE ==
    "</head>"

\* the "content" of a path that does not exist (no file holds this token)
Absent ==
    << "ENOENT" >>

\* history value: nothing recorded yet
NotYet ==
    << "not yet" >>

CONTAINMENT_CSS ==
    << MARKER_CSS, "\n",
       "/* CSS containment hints */ pre[class*=language-], code[class*=language-], code.hljs, pre > code { contain: content; }\n" >>

STYLE_TAG ==
    << "<style>\n" >> \o CONTAINMENT_CSS \o << "</style>" >>

FLAGS ==
    << [flag |-> "enable-gpu-rasterization",            value |-> "null"],
       [flag |-> "enable-zero-copy",                    value |-> "null"],
       [flag |-> "ignore-gpu-blocklist",                value |-> "null"],
       [flag |-> "disable-renderer-backgrounding",      value |-> "null"],
       [flag |-> "disable-background-timer-throttling", value |-> "null"] >>

\* String.prototype.includes on token sequences
Includes(s, t) ==
    \E i \in 1..Len(s) : s[i] = t

\* String.prototype.indexOf: 0-based position of the first occurrence, -1 if none
IndexOf(s, t) ==
    IF Includes(s, t)
    THEN (CHOOSE i \in 1..Len(s) : s[i] = t /\ \A j \in 1..(i-1) : s[j] # t) - 1
    ELSE -1

\* String.prototype.slice(a) and slice(0, b), 0-based
SliceFrom(s, a) ==
    SubSeq(s, a + 1, Len(s))

SliceTo(s, b) ==
    SubSeq(s, 1, b)

\* one appendSwitch call per flag: the flag name alone when value is null,
\* the name and the value otherwise
RECURSIVE switchCalls(_)
switchCalls(fs) ==
    IF fs = << >> THEN << >>
    ELSE (IF Head(fs).value = "null"
          THEN << Head(fs).flag >>
          ELSE << Head(fs).flag, Head(fs).value >>) \o switchCalls(Tail(fs))

buildSnippet ==
    << MARKER_FLAGS, "const{app:__app}=require(\"electron\");" >>
       \o switchCalls(FLAGS) \o << "\n" >>

(***************************************************************************)
(* Repository paths                                                        *)
(***************************************************************************)
\* A path is the sequence of its components; path.join is concatenation.
ROOT ==
    << >>

MAIN_JS ==
    ROOT \o << "src", ".vite", "build", "main.js" >>

INDEX_HTML ==
    ROOT \o << "src", "webview", "index.html" >>

existsSync(fsys, p) ==
    p \in DOMAIN fsys

\* fs.writeFileSync(p, c): create or overwrite
writeFileSync(fsys, p, c) ==
    [q \in (DOMAIN fsys) \cup {p} |-> IF q = p THEN c ELSE fsys[q]]


(***************************************************************************)
(* The two patchers.  A run of a script is a function of the file system   *)
(* and the --check flag; its result is the exit status, the file system it *)
(* leaves and whether it called fs.writeFileSync.                          *)
(***************************************************************************)
Exit(status, fsys, wrote) ==
    [status |-> status, fsys |-> fsys, wrote |-> wrote]

\* locateIndexHtml / locateMainJs: TRUE when the target is found
locateIndexHtml(fsys) ==
    existsSync(fsys, INDEX_HTML)

locateMainJs(fsys) ==
    existsSync(fsys, MAIN_JS)

\* mutant: the block is inserted after the closing head tag
patchedHtml_AfterHead(html, headCloseIdx) ==
    SliceTo(html, headCloseIdx + 1) \o << "  " >> \o STYLE_TAG \o << "\n" >>
        \o SliceFrom(html, headCloseIdx + 1)

\* the text written by patch-css-containment.js
patchedHtml(html, headCloseIdx) ==
    SliceTo(html, headCloseIdx) \o << "  " >> \o STYLE_TAG \o << "\n" >>
        \o SliceFrom(html, headCloseIdx)

\* mutant: the marker test is missing, so every apply run injects again
mainCssContainment_NoMarkerCheck(fsys, isCheck) ==
    IF ~locateIndexHtml(fsys) THEN Exit(1, fsys, FALSE)
    ELSE LET html         == fsys[INDEX_HTML]
             headCloseIdx == IndexOf(html, HEAD_CLOSE)
         IN  IF isCheck THEN Exit(0, fsys, FALSE)
             ELSE IF headCloseIdx = -1 THEN Exit(1, fsys, FALSE)
             ELSE Exit(0, writeFileSync(fsys, INDEX_HTML, patchedHtml(html, headCloseIdx)), TRUE)

\* mutant: a missing closing head tag is not an error, the block is appended
mainCssContainment_AppendsWithoutHead(fsys, isCheck) ==
    IF ~locateIndexHtml(fsys) THEN Exit(1, fsys, FALSE)
    ELSE LET html           == fsys[INDEX_HTML]
             alreadyPatched == Includes(html, MARKER_CSS)
             headCloseIdx   == IF IndexOf(html, HEAD_CLOSE) = -1 THEN Len(html)
                               ELSE IndexOf(html, HEAD_CLOSE)
         IN  IF isCheck THEN Exit(0, fsys, FALSE)
             ELSE IF alreadyPatched THEN Exit(0, fsys, FALSE)
             ELSE Exit(0, writeFileSync(fsys, INDEX_HTML, patchedHtml(html, headCloseIdx)), TRUE)

\* scripts/patch-css-containment.js
mainCssContainment(fsys, isCheck) ==
    IF ~locateIndexHtml(fsys) THEN Exit(1, fsys, FALSE)
    ELSE LET html           == fsys[INDEX_HTML]
             alreadyPatched == Includes(html, MARKER_CSS)
             headCloseIdx   == IndexOf(html, HEAD_CLOSE)
         IN  IF isCheck THEN Exit(0, fsys, FALSE)
             ELSE IF alreadyPatched THEN Exit(0, fsys, FALSE)
             ELSE IF headCloseIdx = -1 THEN Exit(1, fsys, FALSE)
             ELSE Exit(0, writeFileSync(fsys, INDEX_HTML, patchedHtml(html, headCloseIdx)), TRUE)

\* the text written by patch-chromium-flags.js
patchedSource(source) ==
    buildSnippet \o source

\* mutant: the --check flag is not honoured
mainChromiumFlags_IgnoresCheck(fsys, isCheck) ==
    IF ~locateMainJs(fsys) THEN Exit(1, fsys, FALSE)
    ELSE LET source         == fsys[MAIN_JS]
             alreadyPatched == Includes(source, MARKER_FLAGS)
         IN  IF alreadyPatched THEN Exit(0, fsys, FALSE)
             ELSE Exit(0, writeFileSync(fsys, MAIN_JS, patchedSource(source)), TRUE)

\* scripts/patch-chromium-flags.js
mainChromiumFlags(fsys, isCheck) ==
    IF ~locateMainJs(fsys) THEN Exit(1, fsys, FALSE)
    ELSE LET source         == fsys[MAIN_JS]
             alreadyPatched == Includes(source, MARKER_FLAGS)
         IN  IF isCheck THEN Exit(0, fsys, FALSE)
             ELSE IF alreadyPatched THEN Exit(0, fsys, FALSE)
             ELSE Exit(0, writeFileSync(fsys, MAIN_JS, patchedSource(source)), TRUE)

CSS ==
    "scripts/patch-css-containment.js"

CHROMIUM ==
    "scripts/patch-chromium-flags.js"

Target(script) ==
    IF script = CSS THEN INDEX_HTML ELSE MAIN_JS

Marker(script) ==
    IF script = CSS THEN MARKER_CSS ELSE MARKER_FLAGS

Injected(script) ==
    IF script = CSS THEN STYLE_TAG ELSE buildSnippet

\* mutant: a missing target is created empty before the failure is reported
runPatcher_CreatesMissing(script, fsys, isCheck) ==
    IF ~existsSync(fsys, Target(script))
    THEN Exit(1, writeFileSync(fsys, Target(script), << >>), TRUE)
    ELSE IF script = CSS THEN mainCssContainment(fsys, isCheck)
    ELSE mainChromiumFlags(fsys, isCheck)

\* the patcher named by the command line
runPatcher(script, fsys, isCheck) ==
    IF script = CSS THEN mainCssContainment(fsys, isCheck)
    ELSE mainChromiumFlags(fsys, isCheck)


(***************************************************************************)
(* scripts/update-from-dmg.js                                              *)
(*                                                                         *)
(* An archive path is a sequence of tokens: the separators "\\" and "/"    *)
(* and the names between them.                                             *)
(***************************************************************************)
BSLASH ==
    "\\"

SLASH ==
    "/"

COPY_MAP ==
    << [asarPrefix |-> << ".vite", SLASH, "build" >>, repoDest |-> << "src", ".vite", "build" >>],
       [asarPrefix |-> << "webview" >>,               repoDest |-> << "src", "webview" >>],
       [asarPrefix |-> << "skills" >>,                repoDest |-> << "src", "skills" >>] >>

PATCH_SCRIPTS ==
    << "scripts/patch-copyright.js",
       "scripts/patch-i18n.js",
       "scripts/patch-process-polyfill.js",
       CHROMIUM,
       CSS >>

CLI_DEST ==
    ROOT \o << "resources", "bin", "darwin-arm64", "codex" >>

Running ==
    -1

NoDir ==
    { "ENOENT" }

\* orig.replace(/\\/g, "/")
ReplaceBackslashes(origPath) ==
    [i \in 1..Len(origPath) |-> IF origPath[i] = BSLASH THEN SLASH ELSE origPath[i]]

\* .replace(/^\//, "")
StripLeadingSlash(p) ==
    IF p # << >> /\ Head(p) = SLASH THEN Tail(p) ELSE p

\* orig.replace(/\\/g, "/").replace(/^\//, "")
Normalise(origPath) ==
    StripLeadingSlash(ReplaceBackslashes(origPath))

\* orig.replace(/^\\/, "")
AsarKey(origPath) ==
    IF origPath # << >> /\ Head(origPath) = BSLASH THEN Tail(origPath) ELSE origPath

\* String.prototype.startsWith
StartsWith(p, prefix) ==
    Len(p) >= Len(prefix) /\ SubSeq(p, 1, Len(prefix)) = prefix

\* rel.split("/")
RECURSIVE Split(_)
Split(rel) ==
    IF rel = << >> THEN << >>
    ELSE IF Head(rel) = SLASH THEN Split(Tail(rel))
    ELSE << Head(rel) >> \o Split(Tail(rel))

\* the Map built from asar.listPackage: normalised path -> original path
BuildFileMap(allFiles) ==
    [norm \in { Normalise(o) : o \in allFiles } |->
        CHOOSE o \in allFiles : Normalise(o) = norm]

Prefix(k) ==
    COPY_MAP[k].asarPrefix \o << SLASH >>

DestDir(k) ==
    ROOT \o COPY_MAP[k].repoDest

\* [...fileMap.keys()].filter(norm => norm.startsWith(prefix))
Subset(fmap, k) ==
    { norm \in DOMAIN fmap : StartsWith(norm, Prefix(k)) }

\* path.join(destDir, ...rel.split("/")) with rel = norm.slice(prefix.length)
DestFile(k, norm) ==
    DestDir(k) \o Split(SubSeq(norm, Len(Prefix(k)) + 1, Len(norm)))

\* fs.rmSync(dir, { recursive: true, force: true }) on the repository
rmSync(fsys, dir) ==
    [p \in { q \in DOMAIN fsys : ~StartsWith(q, dir) } |-> fsys[p]]

\* find7zip: the first candidate that exists (when it is a path) and can be
\* spawned; "none" when the loop ends and the function throws.
\* env[i] is what the machine holds for candidate i.
Candidates ==
    << [name |-> "C:/Program Files/7-Zip/7z.exe",       isPath |-> TRUE],
       [name |-> "C:/Program Files (x86)/7-Zip/7z.exe", isPath |-> TRUE],
       [name |-> "7z",                                  isPath |-> FALSE],
       [name |-> "7z.exe",                              isPath |-> FALSE] >>

Usable(env, i) ==
    /\ Candidates[i].isPath => env[i] # "missing"
    /\ env[i] = "spawns"

\* mutant: the candidates are tried from the last to the first
find7zip_LastUsable(env) ==
    IF \E i \in 1..Len(Candidates) : Usable(env, i)
    THEN Candidates[CHOOSE i \in 1..Len(Candidates) :
                        Usable(env, i) /\ \A j \in (i+1)..Len(Candidates) : ~Usable(env, j)].name
    ELSE "none"

\* find7zip, lines 152-170: the first candidate that exists (if it is a path)
\* and can be spawned
find7zip(env) ==
    IF \E i \in 1..Len(Candidates) : Usable(env, i)
    THEN Candidates[CHOOSE i \in 1..Len(Candidates) :
                        Usable(env, i) /\ \A j \in 1..(i-1) : ~Usable(env, j)].name
    ELSE "none"

\* what the vendor archive can hold
ArchiveEntries ==
    { << ".vite", "build", "main.js" >>,
      << "webview", "index.html" >>,
      << "webview", "assets" >>,
      << "skills", "a.md" >>,
      << "webviewer", "x" >> }

\* asar.listPackage gives each entry with the platform's separator in front
\* of every component
RECURSIVE Listed(_, _)
Listed(entry, sep) ==
    IF entry = << >> THEN << >>
    ELSE << sep, Head(entry) >> \o Listed(Tail(entry), sep)

Listings ==
    { { Listed(e, sep) : e \in S } : S \in SUBSET ArchiveEntries, sep \in {BSLASH, SLASH} }

\* contents asar.extractFile can return for the file written at path p
ArchiveContents(p) ==
    IF p = MAIN_JS THEN { << "x" >> }
    ELSE IF p = INDEX_HTML THEN { << "x", HEAD_CLOSE, "x" >>, << "x" >> }
    ELSE { << "new" >> }

\* asar.extractFile returned
NoError ==
    [threw |-> FALSE, message |-> << >>]

\* asar.extractFile threw e, with e.message
Thrown(message) ==
    [threw |-> TRUE, message |-> message]

\* the text the copy step looks for in e.message
DIR_OR_LINK ==
    "directory or link"

\* the messages asar.extractFile can fail with: the one for a directory or
\* link placeholder, another one, and none at all
ExtractMessages ==
    { << "x", DIR_OR_LINK, "x" >>, << "x" >>, << >> }

\* e.message && e.message.includes("directory or link")
IsPlaceholderError(message) ==
    Len(message) > 0 /\ Includes(message, DIR_OR_LINK)

\* find7zip has not probed anything
NoEnv ==
    << >>

UpdIdle ==
    /\ extractErr = NoError
    /\ toolEnv = NoEnv
    /\ exitStatus = Running
    /\ sevenZip = "none"
    /\ tmpDir = NoDir
    /\ fileMap = << >>
    /\ copyIdx = 0
    /\ todo = {}
    /\ copied = 0
    /\ patchIdx = 0
    /\ patchLog = << >>
    /\ threw = FALSE
    /\ cause = "none"
    /\ tmpCreated = FALSE
    /\ subsetOf = << >>
    /\ written = {}

\* process.exit(1) or main().catch before the try block is entered
UpdFatal(why) ==
    /\ pc' = "done"
    /\ exitStatus' = 1
    /\ cause' = why

\* an exception thrown inside the try block: control goes to the finally clause
UpdThrow(why) ==
    /\ pc' = "finally"
    /\ threw' = TRUE
    /\ cause' = why

\* main, lines 253-262: the disk image must exist
UpdValidateDmg ==
    /\ pc = "start"
    /\ \E dmgExists \in BOOLEAN :
         IF dmgExists
         THEN pc' = "find7zip" /\ UNCHANGED <<exitStatus, cause>>
         ELSE UpdFatal("dmg")
    /\ UNCHANGED <<cvars, lvars, mvars, repo, pvars, sevenZip, tmpDir, fileMap, copyIdx, todo, copied,
                   patchIdx, patchLog, threw, tmpCreated, repo0, extractErr, toolEnv, subsetOf, written>>

\* main, line 267: find7zip() is called before the try block
UpdFind7zip ==
    /\ pc = "find7zip"
    /\ \E env \in [1..Len(Candidates) -> {"missing", "nospawn", "spawns"}] :
         /\ sevenZip' = find7zip(env)
         /\ toolEnv' = env
         /\ IF find7zip(env) = "none"
            THEN UpdFatal("7zip")
            ELSE pc' = "mkdtemp" /\ UNCHANGED <<exitStatus, cause>>
    /\ UNCHANGED <<cvars, lvars, mvars, repo, pvars, tmpDir, fileMap, copyIdx, todo, copied,
                   patchIdx, patchLog, threw, tmpCreated, repo0, extractErr, subsetOf, written>>

\* main, line 270: fs.mkdtempSync
UpdMkdtemp ==
    /\ pc = "mkdtemp"
    /\ tmpDir' = {}
    /\ tmpCreated' = TRUE
    /\ toolEnv' = NoEnv
    /\ pc' = "extractAsar"
    /\ UNCHANGED <<cvars, lvars, mvars, repo, pvars, exitStatus, sevenZip, fileMap, copyIdx, todo, copied,
                   patchIdx, patchLog, threw, cause, repo0, extractErr, subsetOf, written>>

\* extractAsarFromDmg: run7z throws when the tool exits non-zero; the function
\* throws when app.asar is not in the output directory
extractAsarFromDmg ==
    /\ pc = "extractAsar"
    /\ \E outcome \in {"toolfail", "noasar", "ok"} :
         CASE outcome = "toolfail" -> UpdThrow("7zfail") /\ UNCHANGED tmpDir
           [] outcome = "noasar"   -> UpdThrow("noasar") /\ UNCHANGED tmpDir
           [] outcome = "ok"       -> /\ tmpDir' = tmpDir \cup {"app.asar"}
                                      /\ pc' = "list"
                                      /\ UNCHANGED <<threw, cause>>
    /\ UNCHANGED <<cvars, lvars, mvars, repo, pvars, exitStatus, sevenZip, fileMap, copyIdx, todo, copied,
                   patchIdx, patchLog, tmpCreated, repo0, extractErr, toolEnv, subsetOf, written>>

\* main, lines 278-288: list the archive and build the lookup
UpdListPackage ==
    /\ pc = "list"
    /\ \/ /\ UpdThrow("list")
          /\ UNCHANGED <<fileMap, copyIdx>>
       \/ \E allFiles \in Listings :
            /\ fileMap' = BuildFileMap(allFiles)
            /\ copyIdx' = 1
            /\ pc' = "copyEntry"
            /\ UNCHANGED <<threw, cause>>
    /\ UNCHANGED <<cvars, lvars, mvars, repo, pvars, exitStatus, sevenZip, tmpDir, todo, copied,
                   patchIdx, patchLog, tmpCreated, repo0, extractErr, toolEnv, subsetOf, written>>

\* after an entry of COPY_MAP: the next entry, or step 4 after the last
AfterEntry(k) ==
    IF k < Len(COPY_MAP)
    THEN copyIdx' = k + 1 /\ pc' = "copyEntry"
    ELSE copyIdx' = k + 1 /\ pc' = "cli"

\* mutant: the destination is not wiped before the files are written
UpdCopyEntry_NoWipe ==
    /\ pc = "copyEntry"
    /\ LET subset == Subset(fileMap, copyIdx) IN
         /\ subsetOf' = Append(subsetOf, subset)
         /\ IF subset = {}
            THEN /\ AfterEntry(copyIdx)
                 /\ UNCHANGED <<repo, todo>>
            ELSE /\ repo' = repo
                 /\ todo' = subset
                 /\ pc' = "copyFile"
                 /\ UNCHANGED copyIdx
    /\ UNCHANGED <<cvars, lvars, mvars, pvars, exitStatus, sevenZip, tmpDir, fileMap, copied,
                   patchIdx, patchLog, threw, cause, tmpCreated, repo0, extractErr, toolEnv, written>>

\* mutant: the destination is wiped before the matching set is tested
UpdCopyEntry_WipesBeforeCheck ==
    /\ pc = "copyEntry"
    /\ LET subset == Subset(fileMap, copyIdx) IN
         /\ subsetOf' = Append(subsetOf, subset)
         /\ repo' = rmSync(repo, DestDir(copyIdx))
         /\ IF subset = {}
            THEN /\ AfterEntry(copyIdx)
                 /\ UNCHANGED todo
            ELSE /\ todo' = subset
                 /\ pc' = "copyFile"
                 /\ UNCHANGED copyIdx
    /\ UNCHANGED <<cvars, lvars, mvars, pvars, exitStatus, sevenZip, tmpDir, fileMap, copied,
                   patchIdx, patchLog, threw, cause, tmpCreated, repo0, extractErr, toolEnv, written>>

\* main, lines 293-305: one entry of COPY_MAP is looked at; with no matching
\* path it is skipped, otherwise its destination is wiped and re-created
UpdCopyEntry ==
    /\ pc = "copyEntry"
    /\ LET subset == Subset(fileMap, copyIdx) IN
         /\ subsetOf' = Append(subsetOf, subset)
         /\ IF subset = {}
            THEN /\ AfterEntry(copyIdx)
                 /\ UNCHANGED <<repo, todo>>
            ELSE /\ repo' = rmSync(repo, DestDir(copyIdx))
                 /\ todo' = subset
                 /\ pc' = "copyFile"
                 /\ UNCHANGED copyIdx
    /\ UNCHANGED <<cvars, lvars, mvars, pvars, exitStatus, sevenZip, tmpDir, fileMap, copied,
                   patchIdx, patchLog, threw, cause, tmpCreated, repo0, extractErr, toolEnv, written>>

\* mutant: every failure of asar.extractFile is taken for a placeholder
UpdCopyFile_SkipsAnyError ==
    /\ pc = "copyFile"
    /\ \E norm \in todo :
         LET destFile == DestFile(copyIdx, norm)
             rest     == todo \ {norm}
             Advance  == IF rest = {} THEN AfterEntry(copyIdx)
                         ELSE UNCHANGED <<pc, copyIdx>>
         IN \/ \E content \in ArchiveContents(destFile) :
                 /\ extractErr' = NoError
                 /\ repo' = writeFileSync(repo, destFile, content)
                 /\ written' = written \cup {destFile}
                 /\ copied' = copied + 1
                 /\ todo' = rest
                 /\ Advance
            \/ \E message \in ExtractMessages :
                 /\ extractErr' = Thrown(message)
                 /\ todo' = rest
                 /\ Advance
                 /\ UNCHANGED <<repo, written, copied>>
    /\ UNCHANGED <<cvars, lvars, mvars, pvars, exitStatus, sevenZip, tmpDir, fileMap,
                   patchIdx, patchLog, tmpCreated, repo0, toolEnv, subsetOf, threw, cause>>

\* main, lines 307-322: one matching path is extracted and written.  The
\* paths are taken in the order of the listing, which the archive decides.
UpdCopyFile ==
    /\ pc = "copyFile"
    /\ \E norm \in todo :
         LET destFile == DestFile(copyIdx, norm)
             rest     == todo \ {norm}
             Advance  == IF rest = {} THEN AfterEntry(copyIdx)
                         ELSE UNCHANGED <<pc, copyIdx>>
         IN \/ \E content \in ArchiveContents(destFile) :
                 /\ extractErr' = NoError
                 /\ repo' = writeFileSync(repo, destFile, content)
                 /\ written' = written \cup {destFile}
                 /\ copied' = copied + 1
                 /\ todo' = rest
                 /\ Advance
                 /\ UNCHANGED <<threw, cause>>
            \/ \E message \in ExtractMessages :
                 /\ extractErr' = Thrown(message)
                 /\ IF IsPlaceholderError(message)
                    THEN \* "directory or link": the entry is skipped
                         /\ todo' = rest
                         /\ Advance
                         /\ UNCHANGED <<repo, written, copied, threw, cause>>
                    ELSE \* any other error is thrown again
                         /\ UpdThrow("entry")
                         /\ UNCHANGED <<repo, written, copied, todo, copyIdx>>
    /\ UNCHANGED <<cvars, lvars, mvars, pvars, exitStatus, sevenZip, tmpDir, fileMap,
                   patchIdx, patchLog, tmpCreated, repo0, toolEnv, subsetOf>>

\* main, lines 329-334, and extractCliBinary: the tool exiting non-zero and a
\* missing binary give false; fs.mkdirSync and fs.copyFileSync are not guarded
extractCliBinary ==
    /\ pc = "cli"
    /\ \E outcome \in {"toolfail", "absent", "mkdirfail", "copyfail", "ok"} :
         /\ tmpDir' = tmpDir \cup {"cli"}
                        \cup (IF outcome \in {"mkdirfail", "copyfail", "ok"}
                              THEN {"cli/codex"} ELSE {})
         /\ CASE outcome \in {"toolfail", "absent"} ->
                   /\ pc' = "patch" /\ patchIdx' = 1
                   /\ UNCHANGED <<repo, threw, cause>>
              [] outcome \in {"mkdirfail", "copyfail"} ->
                   /\ UpdThrow(outcome)
                   /\ UNCHANGED <<repo, patchIdx>>
              [] outcome = "ok" ->
                   /\ repo' = writeFileSync(repo, CLI_DEST, << "codex" >>)
                   /\ pc' = "patch" /\ patchIdx' = 1
                   /\ UNCHANGED <<threw, cause>>
    /\ UNCHANGED <<cvars, lvars, mvars, pvars, exitStatus, sevenZip, fileMap, copyIdx, todo, copied,
                   patchLog, tmpCreated, repo0, extractErr, toolEnv, subsetOf, written>>

\* the patch scripts whose code is not in the source tree: a run ends with
\* status 0 or 1 and does not touch the targets of the other patchers
otherPatcher(fsys) ==
    { Exit(0, fsys, FALSE), Exit(1, fsys, FALSE) }

\* mutant: the patch scripts are run with --check
ChildResults_CheckOnly(script, fsys) ==
    IF script \in {CSS, CHROMIUM}
    THEN { runPatcher(script, fsys, TRUE) }
    ELSE otherPatcher(fsys)

\* the results a patch script run as a child process can have
ChildResults(script, fsys) ==
    IF script \in {CSS, CHROMIUM}
    THEN { runPatcher(script, fsys, FALSE) }
    ELSE otherPatcher(fsys)

\* after a step of runPatches: the next script, or the end of the try block
AfterPatch(i) ==
    /\ patchIdx' = i + 1
    /\ pc' = IF i < Len(PATCH_SCRIPTS) THEN "patch" ELSE "finally"

\* mutant: the loop is left at the first script that fails
runPatches_StopsOnFailure ==
    /\ pc = "patch"
    /\ LET script == PATCH_SCRIPTS[patchIdx] IN
         \/ /\ patchLog' = Append(patchLog, [script |-> script, outcome |-> "skipped"])
            /\ UNCHANGED repo
            /\ AfterPatch(patchIdx)
         \/ \E r \in ChildResults(script, repo) :
              /\ patchLog' = Append(patchLog, [script |-> script,
                                               outcome |-> IF r.status = 0 THEN "ok" ELSE "FAILED"])
              /\ repo' = r.fsys
              /\ IF r.status = 0 THEN AfterPatch(patchIdx)
                 ELSE patchIdx' = Len(PATCH_SCRIPTS) + 1 /\ pc' = "finally"
    /\ UNCHANGED <<cvars, lvars, mvars, pvars, exitStatus, sevenZip, tmpDir, fileMap, copyIdx, todo, copied,
                   threw, cause, tmpCreated, repo0, extractErr, toolEnv, subsetOf, written>>

\* runPatches, one iteration: a script that is not on disk is skipped, any
\* other is run to completion and its status only printed
runPatches ==
    /\ pc = "patch"
    /\ LET script == PATCH_SCRIPTS[patchIdx] IN
         \/ /\ patchLog' = Append(patchLog, [script |-> script, outcome |-> "skipped"])
            /\ UNCHANGED repo
         \/ \E r \in ChildResults(script, repo) :
              /\ patchLog' = Append(patchLog, [script |-> script,
                                               outcome |-> IF r.status = 0 THEN "ok" ELSE "FAILED"])
              /\ repo' = r.fsys
    /\ AfterPatch(patchIdx)
    /\ UNCHANGED <<cvars, lvars, mvars, pvars, exitStatus, sevenZip, tmpDir, fileMap, copyIdx, todo, copied,
                   threw, cause, tmpCreated, repo0, extractErr, toolEnv, subsetOf, written>>

\* mutant: the temporary directory is removed at the end of the try block
\* instead of in a finally clause, so an exception leaves it behind
UpdFinally_KeepsTmpOnError ==
    /\ pc = "finally"
    /\ tmpDir' = IF threw THEN tmpDir ELSE NoDir
    /\ exitStatus' = IF threw THEN 1 ELSE 0
    /\ pc' = "done"
    /\ UNCHANGED <<cvars, lvars, mvars, repo, pvars, sevenZip, fileMap, copyIdx, todo, copied,
                   patchIdx, patchLog, threw, cause, tmpCreated, repo0, extractErr, toolEnv, subsetOf, written>>

\* mutant: a failed run puts the repository back as it was
UpdFinally_RollsBack ==
    /\ pc = "finally"
    /\ tmpDir' = NoDir
    /\ repo' = IF threw THEN repo0 ELSE repo
    /\ exitStatus' = IF threw THEN 1 ELSE 0
    /\ pc' = "done"
    /\ UNCHANGED <<cvars, lvars, mvars, pvars, sevenZip, fileMap, copyIdx, todo, copied,
                   patchIdx, patchLog, threw, cause, tmpCreated, repo0, extractErr, toolEnv,
                   subsetOf, written>>

\* main, lines 341-350: the finally clause removes the temporary directory;
\* a pending exception then reaches main().catch, which exits with status 1
UpdFinally ==
    /\ pc = "finally"
    /\ tmpDir' = NoDir
    /\ exitStatus' = IF threw THEN 1 ELSE 0
    /\ pc' = "done"
    /\ UNCHANGED <<cvars, lvars, mvars, repo, pvars, sevenZip, fileMap, copyIdx, todo, copied,
                   patchIdx, patchLog, threw, cause, tmpCreated, repo0, extractErr, toolEnv, subsetOf, written>>


(***************************************************************************)
(* scripts/dev-menu.js                                                     *)
(***************************************************************************)
\* the values of MENU that can be selected ("sep" is disabled)
MENU ==
    << "update-src", "patch", "rebuild-native", "build-current", "build-win",
       "build-mac", "build-linux", "build-all", "start", "exit" >>

\* the scripts of the "patch" action, in the order of its && chain
MENU_PATCHES ==
    << "scripts/patch-copyright.js",
       "scripts/patch-i18n.js",
       "scripts/patch-process-polyfill.js",
       "scripts/patch-chromium-flags.js",
       "scripts/patch-css-containment.js" >>

\* the command an action with a single child runs
CommandOf(c) ==
    CASE c = "update-src"     -> "scripts/update-from-dmg.js"
      [] c = "rebuild-native" -> "scripts/rebuild-native.js"
      [] c = "build-current"  -> "npm run forge:make"
      [] c = "build-win"      -> "npm run build:win-x64"
      [] c = "build-mac"      -> "npm run build:mac"
      [] c = "build-linux"    -> "npm run build:linux"
      [] c = "build-all"      -> "npm run build:all"
      [] c = "start"          -> "scripts/start-dev.js"

\* result.status of a child whose code is not modelled here: an exit code,
\* or null when the child was ended by a signal
NullStatus ==
    -2

OpaqueStatuses ==
    { 0, 1, NullStatus }

\* run(): the child has run to completion; ok is result.status === 0
Spawned(cmd, status) ==
    [cmd |-> cmd, status |-> status, ok |-> (status = 0)]

MenuIdle ==
    /\ choice = "none"
    /\ chainIdx = 0
    /\ spawned = << >>
    /\ rounds = 0
    /\ menuExit = Running
    /\ prompts = << >>
    /\ answers = << >>
    /\ dmgAtRoot = "unchecked"

\* what the operator can answer to a confirm prompt
ConfirmAnswers ==
    { "y", "n", "enter" }

\* err.name of what a prompt can reject with: the interrupt (Ctrl+C) and any
\* other error
PromptFailures ==
    { "ExitPromptError", "Error" }

\* confirm({ message, default }): Enter alone gives the default
confirm(answer, default) ==
    IF answer = "enter" THEN default ELSE answer = "y"

\* a prompt and what it came back with
Prompt(q, a) ==
    [q |-> q, a |-> a]

\* mutant: every uncaught error ends the process with status 0
MenuCatch_AlwaysZero(errName) ==
    /\ pc' = "exited"
    /\ menuExit' = 0

\* main().catch, lines 198-202
MenuCatch(errName) ==
    /\ pc' = "exited"
    /\ menuExit' = IF errName = "ExitPromptError" THEN 0 ELSE 1

\* main().catch: ExitPromptError ends the process with status 0
MenuInterrupt ==
    MenuCatch("ExitPromptError")

\* mutant: pause() after every choice, "start" included
AfterHandle_AlwaysPauses(c) ==
    pc' = "pause"

\* after handleChoice: pause() unless the choice was "start"
AfterHandle(c) ==
    pc' = IF c # "start" THEN "pause" ELSE "select"

\* main, lines 180-184: the choice list is presented and answered
MenuSelect ==
    /\ pc = "select"
    /\ rounds < MaxRounds
    /\ rounds' = rounds + 1
    /\ spawned' = << >>
    /\ chainIdx' = 0
    /\ dmgAtRoot' = "unchecked"
    /\ \/ \E c \in { MENU[i] : i \in 1..Len(MENU) } :
            /\ choice' = c
            /\ answers' = Append(answers, c)
            /\ prompts' = << Prompt("select", c) >>
            /\ pc' = "handle"
            /\ UNCHANGED menuExit
       \/ \E e \in PromptFailures :
            /\ MenuCatch(e)
            /\ prompts' = << Prompt("select", e) >>
            /\ UNCHANGED <<choice, answers>>
    /\ UNCHANGED <<repo, cvars, lvars, pvars, uvars>>

\* handleChoice, case "update-src", lines 110-113: is Codex.dmg at the root?
MenuUpdateSrc ==
    /\ pc = "handle" /\ choice = "update-src"
    /\ \E dmgExists \in BOOLEAN :
         /\ dmgAtRoot' = IF dmgExists THEN "present" ELSE "absent"
         /\ IF dmgExists
            THEN /\ \E st \in OpaqueStatuses :
                      spawned' = Append(spawned, Spawned(CommandOf(choice), st))
                 /\ AfterHandle(choice)
            ELSE /\ pc' = "confirmDmg"
                 /\ UNCHANGED spawned
    /\ UNCHANGED <<repo, cvars, lvars, pvars, uvars, choice, chainIdx, rounds, menuExit, prompts, answers>>

\* mutant: a declined confirmation falls through to the extractor as well
MenuConfirmDmg_FallsThrough ==
    /\ pc = "confirmDmg"
    /\ \/ \E a \in ConfirmAnswers :
            /\ prompts' = Append(prompts, Prompt("custom-dmg", a))
            /\ \E st \in OpaqueStatuses :
                  spawned' = Append(spawned, Spawned(CommandOf(choice), st))
            /\ AfterHandle(choice)
            /\ UNCHANGED menuExit
       \/ \E e \in PromptFailures :
            /\ MenuCatch(e)
            /\ prompts' = Append(prompts, Prompt("custom-dmg", e))
            /\ UNCHANGED spawned
    /\ UNCHANGED <<repo, cvars, lvars, pvars, uvars, choice, chainIdx, rounds, answers, dmgAtRoot>>

\* handleChoice, case "update-src", lines 114-119: the confirmation is
\* answered; "if (!custom) break;" leaves the action, otherwise the extractor
\* is run without an argument
MenuConfirmDmg ==
    /\ pc = "confirmDmg"
    /\ \/ \E a \in ConfirmAnswers :
            LET custom == confirm(a, TRUE) IN
            /\ prompts' = Append(prompts, Prompt("custom-dmg", a))
            /\ IF ~custom
               THEN UNCHANGED spawned
               ELSE \E st \in OpaqueStatuses :
                      spawned' = Append(spawned, Spawned(CommandOf(choice), st))
            /\ AfterHandle(choice)
            /\ UNCHANGED menuExit
       \/ \E e \in PromptFailures :
            /\ MenuCatch(e)
            /\ prompts' = Append(prompts, Prompt("custom-dmg", e))
            /\ UNCHANGED spawned
    /\ UNCHANGED <<repo, cvars, lvars, pvars, uvars, choice, chainIdx, rounds, answers, dmgAtRoot>>

\* handleChoice, case "patch": entering the && chain
MenuPatchStart ==
    /\ pc = "handle" /\ choice = "patch"
    /\ chainIdx' = 1
    /\ pc' = "patchChain"
    /\ UNCHANGED <<repo, cvars, lvars, pvars, uvars, choice, spawned, rounds, menuExit,
                   prompts, answers, dmgAtRoot>>

\* mutant: the results of run() are not chained, every patcher is run
MenuPatch_NoShortCircuit ==
    /\ pc = "patchChain"
    /\ \E r \in ChildResults(MENU_PATCHES[chainIdx], repo) :
         /\ repo' = r.fsys
         /\ spawned' = Append(spawned, Spawned(MENU_PATCHES[chainIdx], r.status))
         /\ IF chainIdx < Len(MENU_PATCHES)
            THEN chainIdx' = chainIdx + 1 /\ UNCHANGED pc
            ELSE UNCHANGED chainIdx /\ AfterHandle(choice)
    /\ UNCHANGED <<cvars, lvars, pvars, uvars, choice, rounds, menuExit, prompts, answers, dmgAtRoot>>

\* handleChoice, case "patch", lines 122-126: one operand of the && chain is
\* run; the next operand is evaluated only when run() returned true
MenuPatch ==
    /\ pc = "patchChain"
    /\ \E r \in ChildResults(MENU_PATCHES[chainIdx], repo) :
         /\ repo' = r.fsys
         /\ spawned' = Append(spawned, Spawned(MENU_PATCHES[chainIdx], r.status))
         /\ IF r.status = 0 /\ chainIdx < Len(MENU_PATCHES)
            THEN chainIdx' = chainIdx + 1 /\ UNCHANGED pc
            ELSE UNCHANGED chainIdx /\ AfterHandle(choice)
    /\ UNCHANGED <<cvars, lvars, pvars, uvars, choice, rounds, menuExit, prompts, answers, dmgAtRoot>>

\* mutant: a child that fails takes the menu process down with it
MenuRunOne_ExitsOnFailure ==
    /\ pc = "handle"
    /\ choice \in { "rebuild-native", "build-current", "build-win", "build-mac",
                    "build-linux", "start" }
    /\ \E st \in OpaqueStatuses :
         /\ spawned' = Append(spawned, Spawned(CommandOf(choice), st))
         /\ IF st = 0
            THEN AfterHandle(choice) /\ UNCHANGED menuExit
            ELSE pc' = "exited" /\ menuExit' = 1
    /\ UNCHANGED <<repo, cvars, lvars, pvars, uvars, choice, chainIdx, rounds,
                   prompts, answers, dmgAtRoot>>

\* handleChoice, the cases with one unconditional child: "rebuild-native",
\* "build-current", "build-win", "build-mac", "build-linux" and "start"
MenuRunOne ==
    /\ pc = "handle"
    /\ choice \in { "rebuild-native", "build-current", "build-win", "build-mac",
                    "build-linux", "start" }
    /\ \E st \in OpaqueStatuses :
         spawned' = Append(spawned, Spawned(CommandOf(choice), st))
    /\ AfterHandle(choice)
    /\ UNCHANGED <<repo, cvars, lvars, pvars, uvars, choice, chainIdx, rounds, menuExit,
                   prompts, answers, dmgAtRoot>>

\* mutant: the build is started whatever the confirmation returned
MenuBuildAll_NoConfirm ==
    /\ pc = "handle" /\ choice = "build-all"
    /\ \/ \E a \in ConfirmAnswers :
            /\ prompts' = Append(prompts, Prompt("build-all", a))
            /\ \E st \in OpaqueStatuses :
                  spawned' = Append(spawned, Spawned(CommandOf(choice), st))
            /\ AfterHandle(choice)
            /\ UNCHANGED menuExit
       \/ \E e \in PromptFailures :
            /\ MenuCatch(e)
            /\ prompts' = Append(prompts, Prompt("build-all", e))
            /\ UNCHANGED spawned
    /\ UNCHANGED <<repo, cvars, lvars, pvars, uvars, choice, chainIdx, rounds, answers, dmgAtRoot>>

\* handleChoice, case "build-all", lines 149-156: confirm, then build
MenuBuildAll ==
    /\ pc = "handle" /\ choice = "build-all"
    /\ \/ \E a \in ConfirmAnswers :
            LET sure == confirm(a, FALSE) IN
            /\ prompts' = Append(prompts, Prompt("build-all", a))
            /\ IF sure
               THEN \E st \in OpaqueStatuses :
                      spawned' = Append(spawned, Spawned(CommandOf(choice), st))
               ELSE UNCHANGED spawned
            /\ AfterHandle(choice)
            /\ UNCHANGED menuExit
       \/ \E e \in PromptFailures :
            /\ MenuCatch(e)
            /\ prompts' = Append(prompts, Prompt("build-all", e))
            /\ UNCHANGED spawned
    /\ UNCHANGED <<repo, cvars, lvars, pvars, uvars, choice, chainIdx, rounds, answers, dmgAtRoot>>

\* handleChoice, case "exit": process.exit(0)
MenuExit ==
    /\ pc = "handle" /\ choice = "exit"
    /\ pc' = "exited"
    /\ menuExit' = 0
    /\ UNCHANGED <<repo, cvars, lvars, pvars, uvars, choice, chainIdx, spawned, rounds,
                   prompts, answers, dmgAtRoot>>

\* pause(), lines 188-194: one line of input, then the loop starts over
MenuPause ==
    /\ pc = "pause"
    /\ pc' = "select"
    /\ UNCHANGED <<repo, cvars, lvars, pvars, uvars, mvars>>

(***************************************************************************)
(* scripts/start-dev.js                                                    *)
(*                                                                         *)
(* A string built from parts is the sequence of its parts; a path is the   *)
(* sequence of its components below the repository root, each component a  *)
(* string of that kind.                                                    *)
(***************************************************************************)
\* what an object gives for a key it does not have
Undefined ==
    "undefined"

\* the values JavaScript takes for false in a condition
Truthy(v) ==
    v \notin { Undefined, "" }

\* the template literal `${platform}-${arch}`
PlatformArch(p, a) ==
    << p, "-", a >>

\* the entries of the object literal, in order: << key, value >>
TARGET_TRIPLE_MAP ==
    << << PlatformArch("darwin", "x64"), "x86_64-apple-darwin" >>,
       << PlatformArch("darwin", "arm64"), "aarch64-apple-darwin" >>,
       << PlatformArch("linux", "x64"), "x86_64-unknown-linux-musl" >>,
       << PlatformArch("linux", "arm64"), "aarch64-unknown-linux-musl" >>,
       << PlatformArch("win32", "x64"), "x86_64-pc-windows-msvc" >> >>

\* map[key]: the value of the last entry with that key, Undefined without one
Lookup(map, key) ==
    LET hits == { i \in 1..Len(map) : map[i][1] = key } IN
    IF hits = {} THEN Undefined
    ELSE map[CHOOSE i \in hits : \A j \in hits : j <= i][2]

\* cliPath: null
NullPath ==
    << >>

\* fs.existsSync on the launcher's side of the file system
binExists(fsys, p) ==
    p \in fsys

\* platform === 'win32' ? 'codex.exe' : 'codex'
CliName(p) ==
    IF p = "win32" THEN << "codex.exe" >> ELSE << "codex" >>

\* path.join(__dirname, '..', 'resources', 'bin', platformArch, cliName)
LocalPath(p, a) ==
    << << "resources" >>, << "bin" >>, PlatformArch(p, a), CliName(p) >>

\* path.join(__dirname, '..', 'node_modules', '@cometix', 'codex', 'vendor',
\*           targetTriple, 'codex', cliName)
NpmPath(p, targetTriple) ==
    << << "node_modules" >>, << "@cometix" >>, << "codex" >>, << "vendor" >>,
       << targetTriple >>, << "codex" >>, CliName(p) >>

\* mutant: the installed package is tried before resources/bin
resolveCodexCli_NpmFirst(p, a, fsys) ==
    LET localPath == LocalPath(p, a)
        targetTriple == Lookup(TARGET_TRIPLE_MAP, PlatformArch(p, a))
        npmPath == NpmPath(p, targetTriple)
    IN  IF Truthy(targetTriple) /\ binExists(fsys, npmPath)
        THEN [cliPath |-> npmPath, source |-> "node_modules/@cometix/codex",
              attempts |-> << npmPath >>]
        ELSE IF binExists(fsys, localPath)
        THEN [cliPath |-> localPath, source |-> "resources/bin",
              attempts |-> << npmPath, localPath >>]
        ELSE [cliPath |-> NullPath, source |-> "null",
              attempts |-> << npmPath, localPath >>]

\* resolveCodexCli(platform, arch), lines 24-56
resolveCodexCli(p, a, fsys) ==
    LET localPath == LocalPath(p, a)
        targetTriple == Lookup(TARGET_TRIPLE_MAP, PlatformArch(p, a))
        npmPath == NpmPath(p, targetTriple)
    IN  IF binExists(fsys, localPath)
        THEN [cliPath |-> localPath, source |-> "resources/bin",
              attempts |-> << localPath >>]
        ELSE IF ~Truthy(targetTriple)
        THEN [cliPath |-> NullPath, source |-> "null", attempts |-> << localPath >>]
        ELSE IF binExists(fsys, npmPath)
        THEN [cliPath |-> npmPath, source |-> "node_modules/@cometix/codex",
              attempts |-> << localPath, npmPath >>]
        ELSE [cliPath |-> NullPath, source |-> "null",
              attempts |-> << localPath, npmPath >>]

\* { ...base, ...over }: the later spread wins
Merge(base, over) ==
    [k \in DOMAIN base \cup DOMAIN over |->
        IF k \in DOMAIN over THEN over[k] ELSE base[k]]

\* process.env.NAME || fallback
EnvOr(env, name, fallback) ==
    IF name \in DOMAIN env /\ Truthy(env[name]) THEN env[name] ELSE fallback

\* code ?? 0
Nullish(code, fallback) ==
    IF code = NullStatus THEN fallback ELSE code

\* no diagnostic printed
Silent ==
    [msg |-> "", paths |-> << >>]

\* before resolveCodexCli has returned
Unresolved ==
    [cliPath |-> NullPath, source |-> "null", attempts |-> << >>]

\* the launcher is not part of the run
LaunchIdle ==
    /\ platform = "none"
    /\ arch = "none"
    /\ bins = {}
    /\ penv = << >>
    /\ probes = << >>
    /\ resolved = Unresolved
    /\ stderr = Silent
    /\ children = << >>
    /\ closeCodes = << >>
    /\ launchExit = Running

\* mutant: an unsupported pair is let through to the resolution
LaunchCheckPlatform_LetsThrough ==
    /\ pc = "platform"
    /\ pc' = "resolve"
    /\ UNCHANGED <<repo, cvars, pvars, uvars, mvars, platform, arch, bins, penv, probes, resolved,
                   stderr, children, closeCodes, launchExit>>

\* lines 58-64: the platform/arch pair is looked up in TARGET_TRIPLE_MAP
LaunchCheckPlatform ==
    /\ pc = "platform"
    /\ IF ~Truthy(Lookup(TARGET_TRIPLE_MAP, PlatformArch(platform, arch)))
       THEN /\ stderr' = [msg |-> "Unsupported platform/arch", paths |-> << >>]
            /\ launchExit' = 1
            /\ pc' = "exited"
       ELSE /\ pc' = "resolve"
            /\ UNCHANGED <<stderr, launchExit>>
    /\ UNCHANGED <<repo, cvars, pvars, uvars, mvars, platform, arch, bins, penv, probes, resolved,
                   children, closeCodes>>

\* mutant: a resolution without a path goes on to the spawn
LaunchResolve_IgnoresMissing ==
    /\ pc = "resolve"
    /\ resolved' = resolveCodexCli(platform, arch, bins)
    /\ probes' = probes \o resolved'.attempts
    /\ pc' = "spawn"
    /\ UNCHANGED <<repo, cvars, pvars, uvars, mvars, platform, arch, bins, penv, children,
                   closeCodes, stderr, launchExit>>

\* lines 66-75: the CLI is resolved; without a path the attempts are printed
\* and the process exits with status 1
LaunchResolve ==
    /\ pc = "resolve"
    /\ resolved' = resolveCodexCli(platform, arch, bins)
    /\ probes' = probes \o resolved'.attempts
    /\ IF resolved'.cliPath = NullPath
       THEN /\ stderr' = [msg |-> "CLI not found", paths |-> resolved'.attempts]
            /\ launchExit' = 1
            /\ pc' = "exited"
       ELSE /\ pc' = "spawn"
            /\ UNCHANGED <<stderr, launchExit>>
    /\ UNCHANGED <<repo, cvars, pvars, uvars, mvars, platform, arch, bins, penv, children,
                   closeCodes>>

\* lines 81-92: the runtime is spawned on the repository root
LaunchSpawn ==
    /\ pc = "spawn"
    /\ children' = Append(children,
          [bin |-> "electron", args |-> << "." >>,
           env |-> Merge(penv,
              [CODEX_CLI_PATH |-> resolved.cliPath,
               BUILD_FLAVOR |-> EnvOr(penv, "BUILD_FLAVOR", "dev"),
               ELECTRON_RENDERER_URL |->
                   EnvOr(penv, "ELECTRON_RENDERER_URL", "app://-/index.html")])])
    /\ pc' = "running"
    /\ UNCHANGED <<repo, cvars, pvars, uvars, mvars, platform, arch, bins, penv, probes, resolved,
                   stderr, closeCodes, launchExit>>

\* the codes a child can close with: an exit code, or null when a signal
\* ended it
ChildCodes ==
    { 0, 1, 2, NullStatus }

\* mutant: the launcher exits with status 0 whatever the child's code
LaunchClose_AlwaysZero ==
    /\ pc = "running"
    /\ \E code \in ChildCodes :
         /\ closeCodes' = Append(closeCodes, code)
         /\ launchExit' = 0
    /\ pc' = "exited"
    /\ UNCHANGED <<repo, cvars, pvars, uvars, mvars, platform, arch, bins, penv, probes, resolved,
                   stderr, children>>

\* lines 94-96: child.on('close', code => process.exit(code ?? 0))
LaunchClose ==
    /\ pc = "running"
    /\ \E code \in ChildCodes :
         /\ closeCodes' = Append(closeCodes, code)
         /\ launchExit' = Nullish(code, 0)
    /\ pc' = "exited"
    /\ UNCHANGED <<repo, cvars, pvars, uvars, mvars, platform, arch, bins, penv, probes, resolved,
                   stderr, children>>

(***************************************************************************)
(* The child processes of the three components                             *)
(*                                                                         *)
(* A script is the sequence of its statements that spawn a child or that   *)
(* stand between two spawns; what the children do is not looked at.        *)
(***************************************************************************)
Stmt(op, cmd) ==
    [op |-> op, cmd |-> cmd]

\* a child, named by the statement that spawned it
Child(i) ==
    [site |-> i, cmd |-> stmts[i].cmd]

\* dev-menu.js: one round of main's loop for the choice c; every child goes
\* through run(), which calls spawnSync
ScriptOfMenu(c) ==
    << Stmt("await", "select") >> \o
    ( CASE c = "patch" ->
              [i \in 1..Len(MENU_PATCHES) |-> Stmt("spawnSync", MENU_PATCHES[i])]
        [] c = "exit" -> << Stmt("exit", "process.exit(0)") >>
        [] c = "build-all" ->
              << Stmt("await", "confirm"), Stmt("spawnSync", CommandOf(c)) >>
        [] OTHER -> << Stmt("spawnSync", CommandOf(c)) >> ) \o
    ( IF c \in { "start", "exit" } THEN << >> ELSE << Stmt("await", "pause") >> )

\* update-from-dmg.js: find7zip's probes, run7z, the copy step, the CLI
\* extraction, runPatches and the finally block
ScriptOfExtractor ==
    [i \in 1..Len(Candidates) |-> Stmt("probe", Candidates[i].name)] \o
    << Stmt("spawnSync", "7z e app.asar"),
       Stmt("sync", "copy step"),
       Stmt("spawnSync", "7z e codex") >> \o
    [i \in 1..Len(PATCH_SCRIPTS) |-> Stmt("spawnSync", PATCH_SCRIPTS[i])] \o
    << Stmt("sync", "fs.rmSync(tmpDir)") >>

\* start-dev.js: the resolution, spawn and the registration of the handler
ScriptOfLauncher ==
    << Stmt("sync", "resolveCodexCli"),
       Stmt("spawn", "electron ."),
       Stmt("on-close", "process.exit(code ?? 0)") >>

\* the statement a script goes on with after a child that was waited for
AfterChild(c, scr, i, ok) ==
    CASE c = "menu" /\ scr[i].cmd \in { MENU_PATCHES[k] : k \in 1..Len(MENU_PATCHES) } /\ ~ok ->
              Len(scr)
      [] c = "extractor" /\ scr[i].op = "probe" /\ ok -> Len(Candidates) + 1
      [] c = "extractor" /\ scr[i].cmd = "7z e app.asar" /\ ~ok -> Len(scr)
      [] OTHER -> i + 1

\* the statement at ip is executed: it is remembered if a child is running
Executes ==
    ranWhileLive' = IF live # {} THEN ranWhileLive \cup { stmts[ip] } ELSE ranWhileLive

\* no script is being followed
ProcIdle ==
    /\ comp = "none"
    /\ stmts = << >>
    /\ ip = 0
    /\ live = {}
    /\ handler = FALSE
    /\ events = << >>
    /\ endWith = 0
    /\ procExit = Running
    /\ ranWhileLive = {}

AtStatement ==
    /\ pc = "run"
    /\ ip \in 1..Len(stmts)

\* mutant: the child is started and the script goes on without waiting
ProcSpawnSync_NoWait ==
    /\ AtStatement
    /\ stmts[ip].op \in { "spawnSync", "probe" }
    /\ Executes
    /\ live' = live \cup { Child(ip) }
    /\ ip' = ip + 1
    /\ UNCHANGED <<repo, pc, pvars, uvars, mvars, lvars, comp, stmts, handler, events,
                   endWith, procExit>>

\* spawnSync is entered: the child runs and the script is inside the call
ProcSpawnSync ==
    /\ AtStatement
    /\ stmts[ip].op \in { "spawnSync", "probe" }
    /\ Executes
    /\ live' = live \cup { Child(ip) }
    /\ pc' = "spawnSync"
    /\ UNCHANGED <<repo, pvars, uvars, mvars, lvars, comp, stmts, ip, handler, events,
                   endWith, procExit>>

\* spawnSync returns: the child has exited (or could not be spawned) and the
\* script goes on; find7zip throws after its last candidate, run7z throws on
\* a status other than 0
ProcSyncReturn ==
    /\ pc = "spawnSync"
    /\ live' = live \ { Child(ip) }
    /\ \E ok \in BOOLEAN :
         IF stmts[ip].op = "probe" /\ ~ok /\ ip = Len(Candidates)
         THEN /\ pc' = "exited"
              /\ procExit' = 1
              /\ UNCHANGED <<ip, endWith>>
         ELSE /\ pc' = "run"
              /\ ip' = AfterChild(comp, stmts, ip, ok)
              /\ endWith' = IF stmts[ip].cmd = "7z e app.asar" /\ ~ok THEN 1 ELSE endWith
              /\ UNCHANGED procExit
    /\ UNCHANGED <<repo, pvars, uvars, mvars, lvars, comp, stmts, handler, events,
                   ranWhileLive>>

\* find7zip, line 160: a candidate that is a path and does not exist is
\* passed over without a spawn
ProcProbeSkipped ==
    /\ AtStatement
    /\ stmts[ip].op = "probe"
    /\ Candidates[ip].isPath
    /\ Executes
    /\ ip' = ip + 1
    /\ UNCHANGED <<repo, pc, pvars, uvars, mvars, lvars, comp, stmts, live, handler, events,
                   endWith, procExit>>

\* spawn: the child is started and the call returns at once
ProcSpawn ==
    /\ AtStatement
    /\ stmts[ip].op = "spawn"
    /\ Executes
    /\ live' = live \cup { Child(ip) }
    /\ ip' = ip + 1
    /\ UNCHANGED <<repo, pc, pvars, uvars, mvars, lvars, comp, stmts, handler, events,
                   endWith, procExit>>

\* child.on('close', ...): the handler is registered
ProcOnClose ==
    /\ AtStatement
    /\ stmts[ip].op = "on-close"
    /\ Executes
    /\ handler' = TRUE
    /\ ip' = ip + 1
    /\ UNCHANGED <<repo, pc, pvars, uvars, mvars, lvars, comp, stmts, live, events,
                   endWith, procExit>>

\* a statement without a child; the answer to the choice list fixes the rest
\* of the round
ProcStatement ==
    /\ AtStatement
    /\ stmts[ip].op \in { "await", "sync" }
    /\ Executes
    /\ ip' = ip + 1
    /\ IF stmts[ip].cmd = "select"
       THEN /\ \E c \in { MENU[i] : i \in 1..Len(MENU) } : stmts' = ScriptOfMenu(c)
            /\ rounds' = rounds + 1
       ELSE UNCHANGED <<stmts, rounds>>
    /\ UNCHANGED <<repo, pc, pvars, uvars, lvars, comp, live, handler, events,
                   endWith, procExit, choice, chainIdx, spawned, menuExit, prompts,
                   answers, dmgAtRoot>>

\* main's while (true): the menu goes back to the choice list
ProcNextRound ==
    /\ pc = "run"
    /\ comp = "menu"
    /\ ip = Len(stmts) + 1
    /\ rounds < MaxRounds
    /\ stmts' = << Stmt("await", "select") >>
    /\ ip' = 1
    /\ UNCHANGED <<repo, pc, pvars, uvars, mvars, lvars, comp, live, handler, events,
                   endWith, procExit, ranWhileLive>>

\* process.exit in the script, and the end of a script that leaves nothing
\* for the event loop to wait for
ProcExit ==
    /\ pc = "run"
    /\ \/ /\ ip \in 1..Len(stmts)
          /\ stmts[ip].op = "exit"
          /\ Executes
          /\ procExit' = 0
          /\ pc' = "exited"
       \/ /\ ip = Len(stmts) + 1
          /\ comp # "menu"
          /\ UNCHANGED ranWhileLive
          /\ IF handler \/ live # {}
             THEN pc' = "loop" /\ UNCHANGED procExit
             ELSE pc' = "exited" /\ procExit' = endWith
    /\ UNCHANGED <<repo, pvars, uvars, mvars, lvars, comp, stmts, ip, live, handler, events,
                   endWith>>

\* a child that nobody waits for inside spawnSync exits
ProcChildCloses ==
    /\ pc \in { "run", "loop" }
    /\ \E c \in live, code \in ChildCodes :
         /\ live' = live \ { c }
         /\ events' = Append(events, code)
    /\ UNCHANGED <<repo, pc, pvars, uvars, mvars, lvars, comp, stmts, ip, handler,
                   endWith, procExit, ranWhileLive>>

\* the event loop delivers 'close' to the handler once the script has run
\* to its end
ProcDispatchClose ==
    /\ pc = "loop"
    /\ handler
    /\ events # << >>
    /\ procExit' = Nullish(Head(events), 0)
    /\ events' = Tail(events)
    /\ pc' = "exited"
    /\ UNCHANGED <<repo, pvars, uvars, mvars, lvars, comp, stmts, ip, live, handler,
                   endWith, ranWhileLive>>

(***************************************************************************)
(* Specification of the patchers run from the command line                 *)
(***************************************************************************)
Alphabet ==
    { "x", HEAD_CLOSE, MARKER_CSS, MARKER_FLAGS }

Contents ==
    UNION { [1..k -> Alphabet] : k \in 0..MaxLen }

ContentOf(fsys, p) ==
    IF existsSync(fsys, p) THEN fsys[p] ELSE Absent

\* a repository holding the given contents of the two targets (Absent: no file)
RepoWith(mainJs, indexHtml) ==
    [p \in (IF mainJs = Absent THEN {} ELSE {MAIN_JS})
            \cup (IF indexHtml = Absent THEN {} ELSE {INDEX_HTML})
       |-> IF p = MAIN_JS THEN mainJs ELSE indexHtml]

DefaultMainJs ==
    << "x" >>

DefaultIndexHtml ==
    << "x", HEAD_CLOSE, "x" >>

PatchIdle ==
    /\ last = [script |-> "none", mode |-> "none", status |-> 0]
    /\ nruns = 0
    /\ writes = [s \in {CSS, CHROMIUM} |-> 0]
    /\ applies = [s \in {CSS, CHROMIUM} |-> 0]
    /\ orig = [s \in {CSS, CHROMIUM} |-> ContentOf(repo, Target(s))]
    /\ afterOne = [s \in {CSS, CHROMIUM} |-> NotYet]

InitPatch ==
    /\ \E c \in Contents \cup {Absent} :
          \/ repo = RepoWith(c, DefaultIndexHtml)
          \/ repo = RepoWith(DefaultMainJs, c)
    /\ pc = "shell"
    /\ PatchIdle
    /\ UpdIdle
    /\ MenuIdle
    /\ LaunchIdle
    /\ ProcIdle
    /\ repo0 = repo

\* node scripts/<script> [--check], run to completion
RunScript(script, isCheck) ==
    LET r == runPatcher(script, repo, isCheck) IN
    /\ pc = "shell"
    /\ nruns < MaxRuns
    /\ repo' = r.fsys
    /\ last' = [script |-> script, mode |-> IF isCheck THEN "check" ELSE "apply",
                status |-> r.status]
    /\ nruns' = nruns + 1
    /\ writes' = [writes EXCEPT ![script] = @ + (IF r.wrote THEN 1 ELSE 0)]
    /\ applies' = [applies EXCEPT ![script] = @ + (IF isCheck THEN 0 ELSE 1)]
    /\ afterOne' = IF ~isCheck /\ applies[script] = 0
                   THEN [afterOne EXCEPT ![script] = ContentOf(r.fsys, Target(script))]
                   ELSE afterOne
    /\ UNCHANGED <<pc, orig, cvars, lvars, uvars, mvars>>

ApplyCss ==
    RunScript(CSS, FALSE)

CheckCss ==
    RunScript(CSS, TRUE)

ApplyFlags ==
    RunScript(CHROMIUM, FALSE)

CheckFlags ==
    RunScript(CHROMIUM, TRUE)

NextPatch ==
    \/ ApplyCss
    \/ CheckCss
    \/ ApplyFlags
    \/ CheckFlags

SpecPatch ==
    InitPatch /\ [][NextPatch]_vars

(***************************************************************************)
(* Specification of one run of the extractor                               *)
(***************************************************************************)
StaleFiles ==
    [p \in { DestDir(k) \o << "stale" >> : k \in 1..Len(COPY_MAP) } |-> << "old" >>]

\* the repository before an update: the files of the previous bundle, with
\* both targets patched
OldRepo ==
    [p \in DOMAIN StaleFiles \cup {MAIN_JS, INDEX_HTML} |->
        IF p = MAIN_JS THEN patchedSource(<< "x" >>)
        ELSE IF p = INDEX_HTML THEN patchedHtml(<< "x", HEAD_CLOSE, "x" >>, 1)
        ELSE StaleFiles[p]]

InitUpdate ==
    /\ repo = OldRepo
    /\ repo0 = repo
    /\ pc = "start"
    /\ PatchIdle
    /\ UpdIdle
    /\ MenuIdle
    /\ LaunchIdle
    /\ ProcIdle

NextUpdate ==
    \/ UpdValidateDmg
    \/ UpdFind7zip
    \/ UpdMkdtemp
    \/ extractAsarFromDmg
    \/ UpdListPackage
    \/ UpdCopyEntry
    \/ UpdCopyFile
    \/ extractCliBinary
    \/ runPatches
    \/ UpdFinally

SpecUpdate ==
    InitUpdate /\ [][NextUpdate]_vars

(***************************************************************************)
(* Specification of a session of the operator menu                         *)
(***************************************************************************)
InitMenu ==
    /\ repo \in { RepoWith(m, h) : m \in {Absent, << "x" >>},
                                   h \in {Absent, << "x" >>, << "x", HEAD_CLOSE, "x" >>} }
    /\ repo0 = repo
    /\ pc = "select"
    /\ PatchIdle
    /\ UpdIdle
    /\ MenuIdle
    /\ LaunchIdle
    /\ ProcIdle

NextMenu ==
    \/ MenuSelect
    \/ MenuUpdateSrc
    \/ MenuConfirmDmg
    \/ MenuPatchStart
    \/ MenuPatch
    \/ MenuRunOne
    \/ MenuBuildAll
    \/ MenuExit
    \/ MenuPause

SpecMenu ==
    InitMenu /\ [][NextMenu]_vars

(***************************************************************************)
(* Specification of one run of the development launcher                    *)
(***************************************************************************)
\* the values of process.platform tried: the three supported and one other
Platforms ==
    { "darwin", "linux", "win32", "freebsd" }

\* the values of os.arch() tried: the two supported and one other
Archs ==
    { "x64", "arm64", "ia32" }

\* a path left in the environment by an earlier session
StalePath ==
    << << "stale" >>, << "codex" >> >>

\* the environments the launcher is started in
ProcessEnvs ==
    { << >>,
      [CODEX_CLI_PATH |-> StalePath],
      [BUILD_FLAVOR |-> "prod"] }

\* the two places a binary for this machine can be at
CandidatePaths(p, a) ==
    { LocalPath(p, a), NpmPath(p, Lookup(TARGET_TRIPLE_MAP, PlatformArch(p, a))) }

InitLauncher ==
    /\ repo = RepoWith(DefaultMainJs, DefaultIndexHtml)
    /\ repo0 = repo
    /\ PatchIdle
    /\ UpdIdle
    /\ MenuIdle
    /\ pc = "platform"
    /\ platform \in Platforms
    /\ arch \in Archs
    /\ bins \in SUBSET CandidatePaths(platform, arch)
    /\ penv \in ProcessEnvs
    /\ probes = << >>
    /\ resolved = Unresolved
    /\ stderr = Silent
    /\ children = << >>
    /\ closeCodes = << >>
    /\ launchExit = Running
    /\ ProcIdle

NextLauncher ==
    \/ LaunchCheckPlatform
    \/ LaunchResolve
    \/ LaunchSpawn
    \/ LaunchClose

SpecLauncher ==
    InitLauncher /\ [][NextLauncher]_vars

(***************************************************************************)
(* Specification of the child processes of one script                      *)
(***************************************************************************)
InitProc ==
    /\ repo = RepoWith(DefaultMainJs, DefaultIndexHtml)
    /\ repo0 = repo
    /\ PatchIdle
    /\ UpdIdle
    /\ MenuIdle
    /\ LaunchIdle
    /\ pc = "run"
    /\ comp \in { "menu", "extractor", "launcher" }
    /\ stmts = CASE comp = "menu" -> << Stmt("await", "select") >>
                  [] comp = "extractor" -> ScriptOfExtractor
                  [] comp = "launcher" -> ScriptOfLauncher
    /\ ip = 1
    /\ live = {}
    /\ handler = FALSE
    /\ events = << >>
    /\ endWith = 0
    /\ procExit = Running
    /\ ranWhileLive = {}

NextProc ==
    \/ ProcSpawnSync
    \/ ProcSyncReturn
    \/ ProcProbeSkipped
    \/ ProcSpawn
    \/ ProcOnClose
    \/ ProcStatement
    \/ ProcNextRound
    \/ ProcExit
    \/ ProcChildCloses
    \/ ProcDispatchClose

SpecProc ==
    InitProc /\ [][NextProc]_vars

(***************************************************************************)
(* Claims about the patchers (checked under SpecPatch)                     *)
(***************************************************************************)
\* number of positions of s at which the token t stands
Count(s, t) ==
    Cardinality({ i \in 1..Len(s) : s[i] = t })

\* number of positions of s at which the block sub starts
Occurrences(s, sub) ==
    Cardinality({ i \in 1..Len(s) :
                    i + Len(sub) - 1 <= Len(s) /\ SubSeq(s, i, i + Len(sub) - 1) = sub })

\* the precondition of C1: the target exists, has no marker and, for the
\* style patcher, has a closing head tag
Patchable(script, c) ==
    /\ c # Absent
    /\ ~Includes(c, Marker(script))
    /\ script = CSS => Includes(c, HEAD_CLOSE)

\* C1: starting from a target without the marker (and, for the style patcher,
\* with a closing head tag), after any number n >= 1 of apply runs the target
\* holds exactly what the first apply run left, the marker occurs exactly once
\* and the injected block occurs exactly once.
C1_ApplyIdempotent ==
    \A s \in {CSS, CHROMIUM} :
        (Patchable(s, orig[s]) /\ applies[s] >= 1) =>
            /\ ContentOf(repo, Target(s)) = afterOne[s]
            /\ Count(ContentOf(repo, Target(s)), Marker(s)) = 1
            /\ Occurrences(ContentOf(repo, Target(s)), Injected(s)) = 1

\* C1 witness: a patchable target on which apply has run twice (one write only)
C1_Witness ==
    \E s \in {CSS, CHROMIUM} :
        /\ Patchable(s, orig[s])
        /\ orig[s] # (IF s = CSS THEN DefaultIndexHtml ELSE DefaultMainJs)
        /\ applies[s] >= 2
        /\ writes[s] = 1
        /\ ContentOf(repo, Target(s)) # orig[s]

\* C2: a run with --check never writes the target: the repository after the
\* run equals the repository before it and no fs.writeFileSync call is made,
\* whatever the target holds.
C2_CheckNeverWrites ==
    [][(nruns' = nruns + 1 /\ last'.mode = "check") =>
          (repo' = repo /\ writes' = writes)]_vars

\* C2 witness: a check run has completed on an existing target that is not
\* patched (the case in which an apply run would have written)
C2_Witness ==
    /\ last.mode = "check"
    /\ last.status = 0
    /\ Patchable(last.script, ContentOf(repo, Target(last.script)))
    /\ writes[last.script] = 0

\* C3 as stated: on an existing markup file without a closing head tag, an
\* apply run of the style patcher exits with status 1 and leaves the file
\* unmodified.
C3_NoHeadFails_Original ==
    [][(/\ nruns' = nruns + 1
        /\ last'.script = CSS /\ last'.mode = "apply"
        /\ existsSync(repo, INDEX_HTML)
        /\ ~Includes(repo[INDEX_HTML], HEAD_CLOSE))
       => (last'.status = 1 /\ repo' = repo)]_vars

\* C3 amended: on an existing markup file with neither a closing head tag nor
\* the patcher's marker, an apply run of the style patcher exits with status
\* 1 and leaves the file unmodified (with the marker present the run is the
\* already-patched no-op and exits 0).
C3_NoHeadFails ==
    [][(/\ nruns' = nruns + 1
        /\ last'.script = CSS /\ last'.mode = "apply"
        /\ existsSync(repo, INDEX_HTML)
        /\ ~Includes(repo[INDEX_HTML], HEAD_CLOSE)
        /\ ~Includes(repo[INDEX_HTML], MARKER_CSS))
       => (last'.status = 1 /\ repo' = repo /\ writes' = writes)]_vars

\* C3 witness: an apply run of the style patcher has failed on an existing
\* file that has no closing head tag and no marker
C3_Witness ==
    /\ last.script = CSS /\ last.mode = "apply" /\ last.status = 1
    /\ existsSync(repo, INDEX_HTML)
    /\ ~Includes(repo[INDEX_HTML], HEAD_CLOSE)
    /\ ~Includes(repo[INDEX_HTML], MARKER_CSS)
    /\ Len(repo[INDEX_HTML]) > 0

\* C20: a run of the Chromium-flag patcher or of the CSS-containment
\* patcher, in apply mode or in check mode, on a repository without the
\* target file exits with status 1, makes no fs.writeFileSync call and leaves
\* the repository as it was, the target still missing.
C20_MissingTargetFails ==
    [][(nruns' = nruns + 1 /\ ~existsSync(repo, Target(last'.script))) =>
          /\ last'.status = 1
          /\ writes' = writes
          /\ repo' = repo
          /\ ~existsSync(repo', Target(last'.script))]_vars

\* C20 witness: the Chromium-flag patcher has run in check mode on a
\* repository without main.js and exited with status 1
C20_Witness ==
    /\ last.script = CHROMIUM
    /\ last.mode = "check"
    /\ last.status = 1
    /\ ~existsSync(repo, MAIN_JS)
    /\ writes[CHROMIUM] = 0

(***************************************************************************)
(* Claims about the extractor (checked under SpecUpdate)                   *)
(***************************************************************************)
CopyDone ==
    copyIdx = Len(COPY_MAP) + 1

\* the paths of a file system below a directory
Below(fsys, dir) ==
    { p \in DOMAIN fsys : StartsWith(p, dir) }

\* the destination paths of the matching set found for entry k
DestFiles(k) ==
    { DestFile(k, norm) : norm \in subsetOf[k] }

\* C4: in every terminal state of a run that created its temporary directory
\* the directory no longer exists, however the run ended; a disk image
\* without the packed-resources archive gives a non-zero exit status and no
\* leftover directory.
C4_TmpDirRemoved ==
    (pc = "done" /\ tmpCreated) =>
        /\ tmpDir = NoDir
        /\ cause = "noasar" => exitStatus # 0

\* C4 witness: a run has ended because app.asar was not in the extracted output
C4_Witness ==
    pc = "done" /\ tmpCreated /\ cause = "noasar" /\ exitStatus = 1

\* C5: once an entry of the copy map with a non-empty matching set has been
\* processed, its destination holds only files written by this run from the
\* matching set, and every file that was there before and is not in the
\* matching set is gone.
C5_DestReplaced ==
    \A k \in 1..Len(subsetOf) :
        (subsetOf[k] # {} /\ copyIdx > k) =>
            /\ Below(repo, DestDir(k)) \subseteq (written \cap DestFiles(k))
            /\ \A p \in Below(repo0, DestDir(k)) : p \notin DestFiles(k) => ~existsSync(repo, p)

\* C5 witness: a run has ended with status 0 in which an entry whose
\* destination held a stale file was replaced by a file from the archive
C5_Witness ==
    /\ pc = "done" /\ exitStatus = 0
    /\ \E k \in 1..Len(subsetOf) :
          /\ subsetOf[k] # {}
          /\ Below(repo0, DestDir(k)) \ DestFiles(k) # {}
          /\ Below(repo, DestDir(k)) # {}

\* C6: an entry of the copy map that matches no archive path leaves the
\* repository as it is (nothing deleted, nothing written), and the run goes
\* on with the next entry (or with the step after the copy loop); when the
\* copy loop is over, the destination of every skipped entry is as it was at
\* the start, and a run that ends with status 0 has looked at all three
\* entries.
C6_SkipLeavesDest ==
    /\ [][(pc = "copyEntry" /\ Subset(fileMap, copyIdx) = {}) =>
            /\ repo' = repo
            /\ written' = written
            /\ copyIdx' = copyIdx + 1
            /\ pc' = IF copyIdx < Len(COPY_MAP) THEN "copyEntry" ELSE "cli"]_vars
    /\ [](pc = "cli" =>
            \A k \in 1..Len(subsetOf) :
                subsetOf[k] = {} =>
                    /\ Below(repo, DestDir(k)) = Below(repo0, DestDir(k))
                    /\ \A p \in Below(repo0, DestDir(k)) : repo[p] = repo0[p])
    /\ [](exitStatus = 0 => Len(subsetOf) = Len(COPY_MAP))

\* C6 witness: a run has ended with status 0 in which the second entry matched
\* nothing and kept its files, and the third entry was then replaced
C6_Witness ==
    /\ pc = "done" /\ exitStatus = 0
    /\ subsetOf[2] = {}
    /\ Below(repo, DestDir(2)) = Below(repo0, DestDir(2))
    /\ \A p \in Below(repo0, DestDir(2)) : repo[p] = repo0[p]
    /\ subsetOf[3] # {}
    /\ Below(repo, DestDir(3)) \subseteq written

\* C7 as stated, read in the claim's favour (only runs in which every patch
\* script was on disk and was re-run are looked at): when a run exits with
\* status 0, each patch target that the run refreshed exists and contains its
\* patcher's marker.
C7_ExitZeroPatched_Original ==
    (/\ pc = "done" /\ exitStatus = 0
     /\ \A i \in 1..Len(patchLog) : patchLog[i].outcome # "skipped") =>
        \A s \in {CHROMIUM, CSS} :
            Target(s) \in written =>
                existsSync(repo, Target(s)) /\ Includes(repo[Target(s)], Marker(s))

\* C7 amended: when a run exits with status 0, runPatches has gone through
\* all five scripts after the copy step, and each of the two targets whose
\* patcher was run and exited with status 0 contains that patcher's marker.
C7_ExitZeroPatched ==
    (pc = "done" /\ exitStatus = 0) =>
        /\ CopyDone
        /\ Len(patchLog) = Len(PATCH_SCRIPTS)
        /\ \A i \in 1..Len(patchLog) :
              /\ patchLog[i].script = PATCH_SCRIPTS[i]
              /\ (patchLog[i].script \in {CHROMIUM, CSS} /\ patchLog[i].outcome = "ok") =>
                    /\ existsSync(repo, Target(patchLog[i].script))
                    /\ Includes(repo[Target(patchLog[i].script)], Marker(patchLog[i].script))

\* C7 witness: a run has ended with status 0 after refreshing both targets
\* and patching both
C7_Witness ==
    /\ pc = "done" /\ exitStatus = 0
    /\ {MAIN_JS, INDEX_HTML} \subseteq written
    /\ patchLog[4].outcome = "ok" /\ patchLog[5].outcome = "ok"
    /\ Includes(repo[MAIN_JS], MARKER_FLAGS)
    /\ Includes(repo[INDEX_HTML], MARKER_CSS)

\* C9 as stated: when runPatches has finished, all five scripts have been
\* invoked, in the order of PATCH_SCRIPTS.
C9_AllFiveRun_Original ==
    patchIdx = Len(PATCH_SCRIPTS) + 1 =>
        /\ Len(patchLog) = Len(PATCH_SCRIPTS)
        /\ \A i \in 1..Len(patchLog) :
              patchLog[i].script = PATCH_SCRIPTS[i] /\ patchLog[i].outcome # "skipped"

\* C9 amended: runPatches goes through the five scripts in the order of
\* PATCH_SCRIPTS and invokes every one that is on disk, whatever the exit
\* status of the earlier ones; a script that is not on disk is skipped and
\* does not stop the later ones.  So: each step of runPatches handles the
\* next script of the list and moves on, and the loop is left only after the
\* fifth.
C9_AllFiveRun ==
    /\ [][pc = "patch" =>
            /\ patchLog' = Append(patchLog, patchLog'[Len(patchLog')])
            /\ patchLog'[Len(patchLog')].script = PATCH_SCRIPTS[patchIdx]
            /\ patchIdx' = patchIdx + 1
            /\ pc' = IF patchIdx < Len(PATCH_SCRIPTS) THEN "patch" ELSE "finally"]_vars
    /\ []((patchIdx > 0 /\ pc # "patch") =>
            /\ Len(patchLog) = Len(PATCH_SCRIPTS)
            /\ \A i \in 1..Len(patchLog) : patchLog[i].script = PATCH_SCRIPTS[i])

\* C9 witness: runPatches has finished, the first script failed and every
\* later one was still invoked
C9_Witness ==
    /\ patchIdx = Len(PATCH_SCRIPTS) + 1
    /\ patchLog[1].outcome = "FAILED"
    /\ \A i \in 2..Len(PATCH_SCRIPTS) : patchLog[i].outcome # "skipped"
    /\ patchLog[4].outcome = "FAILED"
    /\ patchLog[5].outcome = "ok"

\* C10: once the copy step has completed, the run ends with status 0,
\* whatever happens in the CLI-binary step and in the re-patch step.
C10_NoFatalAfterCopy ==
    (pc = "done" /\ CopyDone) => exitStatus = 0

(***************************************************************************)
(* Claims about the menu (checked under SpecMenu)                          *)
(***************************************************************************)
\* C8: the "patch" action runs the five patchers in the order copyright,
\* i18n, polyfill, Chromium flags, CSS containment, and runs patcher k+1 only
\* if patcher k exited with status 0: every child but the last one run has
\* status 0, and the action ends only after the fifth patcher or after a
\* patcher that failed.
C8_PatchChain ==
    choice = "patch" =>
        /\ Len(spawned) <= Len(MENU_PATCHES)
        /\ pc = "patchChain" => Len(spawned) = chainIdx - 1
        /\ \A i \in 1..Len(spawned) :
              /\ spawned[i].cmd = MENU_PATCHES[i]
              /\ i < Len(spawned) => spawned[i].status = 0
        /\ pc = "pause" =>
              /\ spawned # << >>
              /\ Len(spawned) = Len(MENU_PATCHES) \/ spawned[Len(spawned)].status # 0

\* C8 witness: the chain has ended at the fourth patcher, which failed after
\* three successes
C8_Witness ==
    /\ choice = "patch" /\ pc = "pause"
    /\ Len(spawned) = 4
    /\ spawned[3].status = 0
    /\ spawned[4].status = 1

\* C11 as stated: after "start" has been dispatched and the launcher has
\* exited, the choice list is never presented again, so no choice is ever
\* made after a "start".
C11_NoPromptAfterStart_Original ==
    \A i \in 1..Len(answers) : answers[i] = "start" => i = Len(answers)

\* C11 (amended): after "start" has been dispatched and the launcher has
\* exited, the menu skips the keypress wait and goes straight back to the
\* choice list, the process still running; after every other non-exit choice
\* the choice list is reached only through the keypress wait.
C11_StartSkipsPause ==
    [][ /\ (pc = "handle" /\ choice = "start") =>
              (pc' = "select" /\ menuExit' = Running /\ Len(spawned') = 1)
        /\ (pc # "select" /\ pc' = "select") =>
              (pc = "pause" <=> choice # "start")
        /\ pc = "pause" => (pc' = "select" /\ choice # "start") ]_vars

\* C11 witness: a choice was made at the choice list presented after "start"
C11_Witness ==
    /\ Len(answers) = 2
    /\ answers[1] = "start"
    /\ pc = "handle"

\* C12 as stated: the "update-src" action always ends with the extractor
\* invoked, also when the image is absent and the confirmation was declined;
\* with the image present there is no prompt.
C12_DeclineStillExtracts_Original ==
    (choice = "update-src" /\ pc = "pause") =>
        /\ Len(spawned) = 1
        /\ spawned[1].cmd = CommandOf("update-src")
        /\ dmgAtRoot = "present" => Len(prompts) = 1

\* C12 (amended): in the "update-src" action, when the image is present the
\* extractor is invoked without any prompt; when it is absent the
\* confirmation is asked, and the extractor is invoked exactly when the
\* confirmation returned true: a declined confirmation ends the action with
\* no child spawned.
C12_DeclineSkipsExtractor ==
    (choice = "update-src" /\ pc = "pause") =>
        /\ dmgAtRoot \in { "present", "absent" }
        /\ \A i \in 1..Len(spawned) : spawned[i].cmd = CommandOf("update-src")
        /\ dmgAtRoot = "present" => (Len(prompts) = 1 /\ Len(spawned) = 1)
        /\ dmgAtRoot = "absent" =>
              /\ Len(prompts) = 2
              /\ prompts[2].q = "custom-dmg"
              /\ prompts[2].a = "n" => spawned = << >>
              /\ prompts[2].a \in { "y", "enter" } => Len(spawned) = 1

\* C12 witness: the image was absent, the confirmation was declined and the
\* action has ended without a child
C12_Witness ==
    /\ choice = "update-src" /\ pc = "pause"
    /\ dmgAtRoot = "absent"
    /\ prompts[2] = Prompt("custom-dmg", "n")
    /\ spawned = << >>

\* C13: the "build-all" action spawns "npm run build:all" only if its
\* confirmation returned true; when the confirmation is declined, by "n" or
\* by accepting the default (false), no child is spawned.
C13_BuildAllConfirmed ==
    choice = "build-all" =>
        /\ Len(spawned) <= 1
        /\ spawned # << >> =>
              /\ spawned[1].cmd = CommandOf("build-all")
              /\ prompts = << Prompt("select", "build-all"), Prompt("build-all", "y") >>
        /\ pc = "pause" =>
              /\ Len(prompts) = 2
              /\ prompts[2].q = "build-all"
              /\ prompts[2].a \in { "n", "enter" } => spawned = << >>
              /\ prompts[2].a = "y" => Len(spawned) = 1

\* C13 witness: the confirmation was accepted and the build has run
C13_Witness ==
    /\ choice = "build-all" /\ pc = "pause"
    /\ prompts[2] = Prompt("build-all", "y")
    /\ Len(spawned) = 1
    /\ spawned[1].cmd = CommandOf("build-all")

\* C14: a child's exit status never ends the menu process: a step in which
\* a child of a non-start action has run leaves the process running and goes
\* to the keypress wait (or on in the patch chain), the keypress wait leads
\* back to the choice list, and the process ends only at the "exit" choice or
\* at a prompt that failed (interrupt or error).
C14_FailureKeepsMenu ==
    [][ /\ Len(spawned') > Len(spawned) =>
              /\ menuExit' = Running
              /\ choice # "start" => pc' \in { "pause", "patchChain" }
              /\ (choice \notin { "start", "patch" }) => pc' = "pause"
        /\ pc = "pause" => (pc' = "select" /\ menuExit' = Running)
        /\ (menuExit = Running /\ menuExit' # Running) =>
              \/ pc = "handle" /\ choice = "exit"
              \/ /\ prompts' # prompts
                 /\ prompts'[Len(prompts')].a \in PromptFailures ]_vars

\* C14 witness: the choice list is about to be presented again after an
\* action whose child exited with a non-zero status
C14_Witness ==
    /\ pc = "select" /\ rounds = 1 /\ menuExit = Running
    /\ choice = "build-current"
    /\ Len(spawned) = 1
    /\ spawned[1].status = 1

\* C15: the step that ends the menu process gives status 0 when a prompt
\* (the choice list or either confirmation) raised the interrupt, status 1
\* when a prompt failed with any other error, and status 0 at the "exit"
\* choice, which ends the process in the very step that handles it, without
\* the keypress wait.
C15_ExitStatuses ==
    [][ /\ (menuExit = Running /\ menuExit' # Running) =>
              LET p == prompts'[Len(prompts')] IN
              /\ pc' = "exited"
              /\ p.a = "ExitPromptError" => menuExit' = 0
              /\ (p.a \in PromptFailures /\ p.a # "ExitPromptError") => menuExit' = 1
              /\ p.a \notin PromptFailures =>
                    (pc = "handle" /\ choice = "exit" /\ menuExit' = 0)
        /\ (pc = "handle" /\ choice = "exit") =>
              (pc' = "exited" /\ menuExit' = 0) ]_vars

\* C15 witness: the confirmation of "build-all" failed with an error other
\* than the interrupt and the process has ended with status 1
C15_Witness ==
    /\ pc = "exited" /\ menuExit = 1
    /\ prompts = << Prompt("select", "build-all"), Prompt("build-all", "Error") >>

(***************************************************************************)
(* Claims about the development launcher (checked under SpecLauncher)      *)
(***************************************************************************)
\* the five supported platform/arch keys
SupportedKeys ==
    { PlatformArch("darwin", "x64"), PlatformArch("darwin", "arm64"),
      PlatformArch("linux", "x64"), PlatformArch("linux", "arm64"),
      PlatformArch("win32", "x64") }

\* the launcher runs on a supported key
OnSupportedKey ==
    PlatformArch(platform, arch) \in SupportedKeys

\* resolveCodexCli has returned
HasResolved ==
    resolved.attempts # << >>

\* the canonical and the fallback path of this machine
Canonical ==
    LocalPath(platform, arch)

Fallback ==
    NpmPath(platform, Lookup(TARGET_TRIPLE_MAP, PlatformArch(platform, arch)))

\* C16: on a supported key, once the CLI has been resolved: if a binary
\* exists at the canonical path resources/bin/<platform>-<arch>/codex[.exe],
\* that path is the resolved one, with source "resources/bin", whether or not
\* the fallback exists; the fallback is the resolved path only when the
\* canonical one does not exist and the fallback does.
C16_CanonicalFirst ==
    (OnSupportedKey /\ HasResolved) =>
        /\ Canonical =
              << << "resources" >>, << "bin" >>, << platform, "-", arch >>,
                 << IF platform = "win32" THEN "codex.exe" ELSE "codex" >> >>
        /\ Canonical \in bins =>
              (resolved.cliPath = Canonical /\ resolved.source = "resources/bin")
        /\ (resolved.cliPath = Fallback \/ resolved.source = "node_modules/@cometix/codex") =>
              /\ Canonical \notin bins
              /\ Fallback \in bins
              /\ resolved.cliPath = Fallback

\* C16 witness: both binaries exist and the canonical one has been resolved
C16_Witness ==
    /\ OnSupportedKey /\ HasResolved
    /\ { Canonical, Fallback } \subseteq bins
    /\ resolved.cliPath = Canonical

\* C17: on a supported key with a binary at neither path the launcher exits
\* with status 1, its diagnostic lists the canonical path and then the
\* fallback path, and no child is ever spawned; and every child spawned has
\* CODEX_CLI_PATH set to the resolved path, at which a binary exists.
C17_MissingCliFails ==
    /\ (OnSupportedKey /\ bins \cap { Canonical, Fallback } = {}) =>
          /\ children = << >>
          /\ pc \in { "platform", "resolve", "exited" }
          /\ pc = "exited" =>
                /\ launchExit = 1
                /\ stderr.paths = << Canonical, Fallback >>
    /\ \A i \in 1..Len(children) :
          /\ children[i].env["CODEX_CLI_PATH"] \in bins
          /\ children[i].env["CODEX_CLI_PATH"] = resolved.cliPath

\* C17 witness: a supported machine without any binary, the launcher has
\* exited after printing the two paths
C17_Witness ==
    /\ OnSupportedKey /\ bins = {}
    /\ pc = "exited" /\ launchExit = 1
    /\ Len(stderr.paths) = 2

\* C18: on a platform/arch pair outside the five supported keys the launcher
\* exits with status 1 with no path checked for existence and no child
\* spawned; and each of the five keys has exactly one entry in the
\* target-triple map, with a triple as its value.
C18_UnsupportedFailsFirst ==
    /\ ~OnSupportedKey =>
          /\ probes = << >>
          /\ children = << >>
          /\ pc \in { "platform", "exited" }
          /\ pc = "exited" => launchExit = 1
    /\ \A k \in SupportedKeys :
          /\ Cardinality({ i \in 1..Len(TARGET_TRIPLE_MAP) : TARGET_TRIPLE_MAP[i][1] = k }) = 1
          /\ Truthy(Lookup(TARGET_TRIPLE_MAP, k))
    /\ Len(TARGET_TRIPLE_MAP) = Cardinality(SupportedKeys)

\* C18 witness: an unsupported machine that holds a binary at the canonical
\* path; the launcher has exited
C18_Witness ==
    /\ platform = "freebsd" /\ arch = "x64"
    /\ Canonical \in bins
    /\ pc = "exited" /\ launchExit = 1

\* C19: once the child has closed, the launcher's exit status is the child's
\* code when the code is a number, and 0 when the code is null.
C19_ExitCodeForwarded ==
    (pc = "exited" /\ closeCodes # << >>) =>
        /\ Len(closeCodes) = 1
        /\ closeCodes[1] # NullStatus => launchExit = closeCodes[1]
        /\ closeCodes[1] = NullStatus => launchExit = 0

\* C19 witness: the child closed with code 2 and the launcher exited with 2
C19_Witness ==
    /\ pc = "exited"
    /\ closeCodes = << 2 >>
    /\ launchExit = 2

(***************************************************************************)
(* Claims about the child processes (checked under SpecProc)               *)
(***************************************************************************)
\* C21 as stated: in every component at most one child is running at any
\* time, and no statement of the script is executed while a child it
\* spawned is running.
C21_ChildrenBlock_Original ==
    /\ Cardinality(live) <= 1
    /\ ranWhileLive = {}

\* C21 (amended): in every component at most one child is running at any
\* time. In the menu and in the extractor a running child means that the
\* script is inside the spawnSync call that started it, and no statement is
\* executed meanwhile. The launcher's spawn does not block: while its child
\* runs the launcher executes the registration of its close handler and
\* nothing else, and it exits only after the child has closed.
C21_ChildrenBlock ==
    /\ Cardinality(live) <= 1
    /\ comp \in { "menu", "extractor" } =>
          /\ ranWhileLive = {}
          /\ live # {} => (pc = "spawnSync" /\ live = { Child(ip) })
    /\ comp = "launcher" =>
          /\ ranWhileLive \subseteq { Stmt("on-close", "process.exit(code ?? 0)") }
          /\ procExit # Running => live = {}

\* C21 witness: the launcher has exited after its child closed, having
\* registered the handler while the child was running
C21_Witness ==
    /\ comp = "launcher"
    /\ pc = "exited"
    /\ live = {}
    /\ ranWhileLive = { Stmt("on-close", "process.exit(code ?? 0)") }

(***************************************************************************)
(* Further claims about the extractor (checked under SpecUpdate)           *)
(***************************************************************************)
\* C22: in the copy step, an entry whose extraction fails with a message
\* holding "directory or link" is skipped: no file is written, the counter is
\* not advanced, nothing is thrown and the step goes on with the next entry.
\* Any other failure of an extraction is thrown, leaves the copy step for the
\* finally clause, and the run ends with a non-zero status.
C22_PlaceholderSkipped ==
    [][ /\ pc = "copyFile" =>
              /\ (extractErr'.threw /\ IsPlaceholderError(extractErr'.message)) =>
                    /\ repo' = repo
                    /\ written' = written
                    /\ copied' = copied
                    /\ ~threw'
                    /\ todo' \subseteq todo /\ Cardinality(todo') = Cardinality(todo) - 1
                    /\ pc' \in { "copyFile", "copyEntry", "cli" }
                    /\ pc' = "copyFile" <=> todo' # {}
              /\ (extractErr'.threw /\ ~IsPlaceholderError(extractErr'.message)) =>
                    /\ threw'
                    /\ cause' = "entry"
                    /\ pc' = "finally"
                    /\ repo' = repo
        /\ (pc = "finally" /\ cause = "entry") =>
              (pc' = "done" /\ exitStatus' # 0 /\ exitStatus' # Running) ]_vars

\* C22 witness: a placeholder entry has just been skipped with files of the
\* same copy-map entry still to extract, none written so far
C22_Witness ==
    /\ pc = "copyFile"
    /\ extractErr = Thrown(<< "x", DIR_OR_LINK, "x" >>)
    /\ todo # {}
    /\ copied = 0
    /\ ~threw

(***************************************************************************)
(* Further claims about the patchers (checked under SpecPatch)             *)
(***************************************************************************)
\* the text the style patcher inserts: two spaces, the style element, a
\* line feed
InsertedText ==
    << "  " >> \o STYLE_TAG \o << "\n" >>

\* C23: an apply run of the style patcher on a file without the marker and
\* with at least one closing head tag exits 0 and leaves the original with
\* the inserted text put in at one position k: the k tokens before it are the
\* original's first k tokens and hold no closing head tag, and what follows
\* it is the rest of the original, which starts with the closing head tag.
\* An apply run of the flag patcher on a file without its marker leaves the
\* snippet followed by the original.
C23_InsertedBeforeFirstHead ==
    [][(nruns' = nruns + 1 /\ last'.mode = "apply"
            /\ Patchable(last'.script, ContentOf(repo, Target(last'.script)))) =>
          LET before == ContentOf(repo, Target(last'.script))
              after  == ContentOf(repo', Target(last'.script))
          IN  /\ last'.status = 0
              /\ \A p \in DOMAIN repo' : p # Target(last'.script) => repo'[p] = repo[p]
              /\ DOMAIN repo' = DOMAIN repo
              /\ last'.script = CSS =>
                    \E k \in 0..(Len(before) - 1) :
                        /\ Len(after) = Len(before) + Len(InsertedText)
                        /\ SubSeq(after, 1, k) = SubSeq(before, 1, k)
                        /\ SubSeq(after, k + 1, k + Len(InsertedText)) = InsertedText
                        /\ SubSeq(after, k + Len(InsertedText) + 1, Len(after))
                              = SubSeq(before, k + 1, Len(before))
                        /\ before[k + 1] = HEAD_CLOSE
                        /\ \A j \in 1..k : before[j] # HEAD_CLOSE
              /\ last'.script = CHROMIUM =>
                    /\ Len(after) = Len(buildSnippet) + Len(before)
                    /\ SubSeq(after, 1, Len(buildSnippet)) = buildSnippet
                    /\ SubSeq(after, Len(buildSnippet) + 1, Len(after)) = before]_vars

\* C23 witness: the style patcher has written a file that held two closing
\* head tags behind another token
C23_Witness ==
    /\ last = [script |-> CSS, mode |-> "apply", status |-> 0]
    /\ orig[CSS] = << "x", HEAD_CLOSE, HEAD_CLOSE >>
    /\ writes[CSS] = 1
    /\ ContentOf(repo, INDEX_HTML) =
          << "x" >> \o InsertedText \o << HEAD_CLOSE, HEAD_CLOSE >>

(***************************************************************************)
(* Claims about the extractor's validation and abort (under SpecUpdate)    *)
(***************************************************************************)
\* the extraction-tool candidates in the order stated by C24
StatedCandidates ==
    << "C:/Program Files/7-Zip/7z.exe", "C:/Program Files (x86)/7-Zip/7z.exe",
       "7z", "7z.exe" >>

\* C24: a run that ends because the disk image does not exist or because no
\* candidate of the extraction tool can be spawned exits with status 1, has
\* created no temporary directory, has left the repository as it was and has
\* run no patcher; without the image no candidate is even probed; and the
\* tool the run goes on with is the first of the candidates, in the fixed
\* order, that can be spawned.
C24_ValidateBeforeMutate ==
    /\ (pc = "done" /\ cause \in { "dmg", "7zip" }) =>
          /\ exitStatus = 1
          /\ ~tmpCreated /\ tmpDir = NoDir
          /\ repo = repo0 /\ written = {} /\ copied = 0
          /\ patchLog = << >>
    /\ (pc = "done" /\ cause = "dmg") => (toolEnv = NoEnv /\ sevenZip = "none")
    /\ (pc = "done" /\ cause = "7zip") =>
          /\ DOMAIN toolEnv = 1..Len(StatedCandidates)
          /\ \A i \in DOMAIN toolEnv : toolEnv[i] # "spawns"
    /\ [i \in 1..Len(Candidates) |-> Candidates[i].name] = StatedCandidates
    /\ pc = "mkdtemp" =>
          \E i \in 1..Len(StatedCandidates) :
              /\ sevenZip = StatedCandidates[i]
              /\ toolEnv[i] = "spawns"
              /\ \A j \in 1..(i - 1) : toolEnv[j] # "spawns"

\* C24 witness: the first install path exists but cannot be spawned, no
\* other candidate can either, and the run has ended
C24_Witness ==
    /\ pc = "done" /\ cause = "7zip" /\ exitStatus = 1
    /\ toolEnv = << "nospawn", "missing", "missing", "nospawn" >>

\* C25: in a run in which an extraction threw while entry k of the copy map
\* was being processed: no patch script is run and the CLI-binary step is
\* never entered; the destinations of the entries after k hold exactly what
\* they held at the start; and nothing is rolled back: in the destination of
\* k and of every entry before k with a matching set, the files of the start
\* that this run did not write are gone and every file there was written by
\* this run; the run ends with status 1.
C25_AbortAtEntry ==
    cause = "entry" =>
        LET k == copyIdx IN
        /\ k \in 1..Len(COPY_MAP) /\ Len(subsetOf) = k
        /\ pc \in { "finally", "done" }
        /\ pc = "done" => exitStatus = 1
        /\ patchLog = << >> /\ patchIdx = 0
        /\ tmpDir # NoDir => "cli" \notin tmpDir
        /\ ContentOf(repo, CLI_DEST) = ContentOf(repo0, CLI_DEST)
        /\ \A j \in (k + 1)..Len(COPY_MAP) :
              /\ Below(repo, DestDir(j)) = Below(repo0, DestDir(j))
              /\ \A p \in Below(repo0, DestDir(j)) : repo[p] = repo0[p]
        /\ \A i \in 1..k :
              subsetOf[i] # {} =>
                  /\ \A p \in Below(repo0, DestDir(i)) : p \notin written => ~existsSync(repo, p)
                  /\ Below(repo, DestDir(i)) \subseteq (written \cap DestFiles(i))

\* C25 witness: the run has ended after a throw in the second entry: the
\* first destination holds a new file, the second one new file and no stale
\* file, the third still its stale file
C25_Witness ==
    /\ pc = "done" /\ cause = "entry" /\ exitStatus = 1
    /\ copyIdx = 2
    /\ Below(repo, DestDir(1)) # {} /\ Below(repo, DestDir(1)) \subseteq written
    /\ Cardinality(subsetOf[2]) = 2
    /\ Cardinality(Below(repo, DestDir(2))) = 1
    /\ ~existsSync(repo, DestDir(2) \o << "stale" >>)
    /\ existsSync(repo, DestDir(3) \o << "stale" >>)

====
